---- MODULE Spec2Model ----
(***************************************************************************)
(* State-machine model of the sniffhunt-scraper session orchestration:     *)
(* WebScraper.js (scrape, scrapeWithStreaming, processNormalMode,          *)
(* processBeastMode), BrowserManager.js (module-level browser/page,        *)
(* initBrowser, closeBrowser), PageNavigator.js (navigateToUrl) and        *)
(* GlobalErrorHandler.js (error classification and retry policy).          *)
(*                                                                         *)
(* One step of the model is the code between two await points that wait    *)
(* on the browser, the content model or a timer.  Collaborators (the       *)
(* browser, the content model, the converters) resolve or reject as the    *)
(* environment chooses.                                                    *)
(***************************************************************************)
EXTENDS Integers, Sequences, FiniteSets, TLC

VARIABLES
  envMaxRetry,   \* process.env.MAX_RETRY_COUNT as parsed by parseInt (0: unset, NaN or 0)
  budget,        \* collaborator failures the environment may still inject (-1: no limit)
  browser,       \* BrowserManager.js module-level `browser` (0 is null, else a browser id)
  page,          \* BrowserManager.js module-level `page` (0 is null, else the id of its browser)
  browsers,      \* every browser process launched so far, by id
  fn,            \* per session: the entry point, "scrape" or "scrapeWithStreaming"
  mode,          \* per session: SCRAPING_MODES value
  pc,            \* per session: the await point the session is suspended at
  retryCount,    \* per session: local `retryCount`
  success,       \* per session: local `success`
  enhancedError, \* per session: local `enhancedError` of scrape / scrapeWithStreaming
  final,         \* per session: locals `finalMarkdown` / `finalHtml` (0 is null, else the attempt that produced it)
  context,       \* per session: `context.browser` / `context.page`
  local,         \* per session: locals of initBrowser, closeBrowser and processBeastMode
  hist,          \* per session: history of the session (observations only, never read by the code)
  result,        \* per session: the value the entry point resolved to
  call           \* one call of a component studied on its own: its arguments, its locals,
                 \* the page it works on and its result ("none" while sessions are studied)

vars == <<envMaxRetry, budget, browser, page, browsers, fn, mode, pc, retryCount,
          success, enhancedError, final, context, local, hist, result, call>>

(***************************************************************************)
(* Bounds of the model                                                     *)
(***************************************************************************)
MaxEnvRetry == 3   \* largest MAX_RETRY_COUNT the environment configures
MaxElements == 2   \* most candidate elements the content model returns

Sessions == {1, 2}

(***************************************************************************)
(* config.js                                                               *)
(***************************************************************************)
\* export const MAX_RETRY_COUNT = parseInt(process.env.MAX_RETRY_COUNT, 10) || 2
MAX_RETRY_COUNT == IF envMaxRetry = 0 THEN 2 ELSE envMaxRetry

(***************************************************************************)
(* GlobalErrorHandler.js                                                   *)
(***************************************************************************)
\* ERROR_CATEGORIES
ERROR_CATEGORIES ==
  {"network", "browser", "ai", "file", "timeout", "rate_limit", "unknown"}

\* An error as _classifyError reads it: which of the keywords its lower-cased
\* message includes, its `code`, its `status`, and whether its stack includes
\* 'puppeteer'.  code "null" marks the absence of an error.
NoError == [kw |-> {}, code |-> "null", status |-> 0, stack |-> FALSE]

Err(kw, code, status) == [kw |-> kw, code |-> code, status |-> status, stack |-> FALSE]

\* _classifyError(error): the first matching test decides
_classifyError(error) ==
  IF \/ error.kw \cap {"network", "fetch", "timeout", "connection"} # {}
     \/ error.code \in {"ENOTFOUND", "ECONNREFUSED"}
  THEN "network"
  ELSE IF \/ error.kw \cap {"browser", "page", "navigation"} # {}
          \/ error.stack
  THEN "browser"
  ELSE IF error.kw \cap {"ai", "api", "model", "gemini"} # {}
  THEN "ai"
  ELSE IF \/ error.kw \cap {"file", "enoent"} # {}
          \/ error.code \in {"ENOENT", "EACCES"}
  THEN "file"
  ELSE IF "timeout" \in error.kw \/ error.code = "ETIMEDOUT"
  THEN "timeout"
  ELSE IF \/ error.kw \cap {"rate limit", "429"} # {}
          \/ error.status = 429
  THEN "rate_limit"
  ELSE "unknown"

\* _shouldRetry(errorType)
_shouldRetry(errorType) ==
  errorType \in {"network", "timeout", "browser", "unknown"}

\* classifyError(error) / handleError(error, context): the EnhancedError fields
handleError(error) ==
  LET errorType == _classifyError(error) IN
  [ category |-> errorType,
    shouldRetry |-> _shouldRetry(errorType),
    retryStrategy |->
      IF _shouldRetry(errorType)
      THEN IF errorType \in {"network", "rate_limit"} THEN "exponential" ELSE "linear"
      ELSE "none",
    error |-> error ]

\* getRetryConfig(error).strategy and the delay of the retry loop, in units of
\* RETRY_DELAY: RETRY_DELAY * Math.pow(2, retryCount - 1) or RETRY_DELAY
retryDelay(handled, count) ==
  IF handled.retryStrategy = "exponential" THEN 2 ^ (count - 1) ELSE 1

(***************************************************************************)
(* The environment: errors the collaborators reject with                   *)
(***************************************************************************)
\* new Error('Failed to initialize browser'): the lower-cased message
\* includes 'browser' and, inside 'failed', 'ai'
InitBrowserError == Err({"browser", "ai"}, "none", 0)

\* TypeError: Cannot read properties of null (reading 'length' / 'frames')
NullTypeError == Err({}, "none", 0)

\* Playwright on a page whose browser was closed: 'Target page, context or
\* browser has been closed'
ClosedTargetError == Err({"page", "browser"}, "none", 0)

\* Rejections of page operations, converters and the content model
ThrownErrors ==
  { Err({"network"}, "none", 0),
    Err({"page"}, "none", 0),
    Err({}, "ETIMEDOUT", 0),
    Err({}, "none", 0),
    Err({"ai"}, "none", 0),
    Err({}, "ENOENT", 0),
    Err({"rate limit"}, "none", 0),
    Err({"429", "fetch"}, "none", 0),
    Err({"model"}, "none", 429),
    Err({"api"}, "ENOTFOUND", 0) }

\* error carries a rate-limit indicator
HasRateLimitIndicator(error) ==
  \/ error.kw \cap {"rate limit", "429"} # {}
  \/ error.status = 429

CanFail == budget # 0
Spend == budget' = IF budget > 0 THEN budget - 1 ELSE budget

(***************************************************************************)
(* Session state                                                           *)
(***************************************************************************)
\* createScrapingContext(): browser: null, page: null
createScrapingContext == [browser |-> 0, page |-> 0]

\* locals of one attempt: the browser the pending newPage / close call was
\* issued on, and processBeastMode's clonedHTML length (-2: not yet
\* assigned, -1: null), enhancedError, interactiveElements.elements.length
\* and the break of scrape
NewLocal ==
  [ launched |-> 0, closing |-> 0, snapshot |-> -2, enhancedError |-> NoError,
    elements |-> 0, stop |-> FALSE ]

NewHist ==
  [ attempts |-> 0, failed |-> 0, allRetryable |-> TRUE, firstCategory |-> "none",
    lastError |-> NoError, delays |-> 0, lastDelay |-> 0,
    navFailed |-> FALSE, ranAfterNavFail |-> FALSE, oversized |-> FALSE,
    aiCalls |-> 0, aiFailed |-> NoError, interactions |-> 0, combined |-> FALSE,
    foreignOps |-> FALSE ]

\* the part of the history that is about the current attempt
ResetAttempt(h) ==
  [ h EXCEPT !.attempts = @ + 1, !.navFailed = FALSE, !.ranAfterNavFail = FALSE,
             !.oversized = FALSE, !.aiCalls = 0, !.aiFailed = NoError,
             !.interactions = 0, !.combined = FALSE ]

NoResult ==
  [ returned |-> FALSE, success |-> FALSE, markdown |-> 0, html |-> 0,
    enhancedError |-> NoError, error |-> NoError ]

InitSession(active) ==
  /\ browser = 0
  /\ page = 0
  /\ browsers = << >>
  /\ fn \in [Sessions -> {"scrape", "scrapeWithStreaming"}]
  /\ mode \in [Sessions -> {"normal", "beast"}]
  /\ pc = [s \in Sessions |-> IF s \in active THEN "loop" ELSE "off"]
  /\ retryCount = [s \in Sessions |-> 0]
  /\ success = [s \in Sessions |-> FALSE]
  /\ enhancedError = [s \in Sessions |-> NoError]
  /\ final = [s \in Sessions |-> [markdown |-> 0, html |-> 0]]
  /\ context = [s \in Sessions |-> createScrapingContext]
  /\ local = [s \in Sessions |-> NewLocal]
  /\ hist = [s \in Sessions |-> NewHist]
  /\ result = [s \in Sessions |-> NoResult]

\* one session at a time (the CLI, or a server handling one request)
Init ==
  /\ envMaxRetry \in 0 .. MaxEnvRetry
  /\ budget = -1
  /\ InitSession({1})
  /\ fn[2] = "scrape" /\ mode[2] = "normal"
  /\ call = "none"

\* context.page can serve an operation: it is a page of a browser still open
PageUsable(s) ==
  /\ context[s].page # 0
  /\ browsers[context[s].page].open

(***************************************************************************)
(* WebScraper.js: the catch block of the retry loop                        *)
(***************************************************************************)
\* scrape: if (!handledError.shouldRetry || category === RATE_LIMIT) break;
\* scrapeWithStreaming has no such test
stopRetries(f, handled) ==
  /\ f = "scrape"
  /\ ~handled.shouldRetry \/ handled.category = "rate_limit"

\* catch (error) { handleError; [break;] retryCount++; if (retryCount <
\* MAX_RETRY_COUNT) await delay }, entered from session s with locals l and
\* history h; runs up to the timer or, without one, up to the finally block
Catch(s, error, l, h) ==
  LET handled == handleError(error)
      stop == stopRetries(fn[s], handled)
      count == IF stop THEN retryCount[s] ELSE retryCount[s] + 1
      wait == ~stop /\ count < MAX_RETRY_COUNT
  IN /\ retryCount' = [retryCount EXCEPT ![s] = count]
     /\ local' = [local EXCEPT ![s] = [l EXCEPT !.stop = stop]]
     /\ hist' = [hist EXCEPT ![s] =
          [h EXCEPT !.failed = @ + 1,
                    !.allRetryable = @ /\ handled.shouldRetry,
                    !.firstCategory = IF h.failed = 0 THEN handled.category ELSE @,
                    !.lastError = error,
                    !.delays = IF wait THEN @ + 1 ELSE @,
                    !.lastDelay = IF wait THEN retryDelay(handled, count) ELSE 0]]
     /\ pc' = [pc EXCEPT ![s] = IF wait THEN "retryWait" ELSE "finally"]

\* the loop test off by one: retryCount <= MAX_RETRY_COUNT
loopTest_OffByOne(s) == retryCount[s] <= MAX_RETRY_COUNT /\ ~success[s]

\* while (retryCount < MAX_RETRY_COUNT && !success)
loopTest(s) == retryCount[s] < MAX_RETRY_COUNT /\ ~success[s]

\* loop body up to `await initBrowser()`, which runs up to `await chromium.launch()`
StartAttempt(s) ==
  /\ pc[s] = "loop"
  /\ loopTest(s)
  /\ context' = [context EXCEPT ![s] = createScrapingContext]
  /\ local' = [local EXCEPT ![s] = NewLocal]
  /\ hist' = [hist EXCEPT ![s] = ResetAttempt(@)]
  /\ pc' = [pc EXCEPT ![s] = "launching"]
  /\ UNCHANGED <<call, envMaxRetry, budget, browser, page, browsers, fn, mode, retryCount,
                 success, enhancedError, final, result>>

(***************************************************************************)
(* BrowserManager.js                                                       *)
(***************************************************************************)
\* browser = await chromium.launch(...) resolves; browser.newPage() is called
LaunchOk(s) ==
  /\ pc[s] = "launching"
  /\ LET id == Len(browsers) + 1 IN
       /\ browsers' = Append(browsers, [owner |-> s, open |-> TRUE, closedBy |-> 0])
       /\ browser' = id
       /\ local' = [local EXCEPT ![s].launched = id]
  /\ pc' = [pc EXCEPT ![s] = "newPage"]
  /\ UNCHANGED <<call, envMaxRetry, budget, page, fn, mode, retryCount, success,
                 enhancedError, final, context, hist, result>>

\* chromium.launch rejects: initBrowser returns false, the caller throws
LaunchFail(s) ==
  /\ pc[s] = "launching"
  /\ CanFail
  /\ Spend
  /\ Catch(s, InitBrowserError, local[s], hist[s])
  /\ UNCHANGED <<call, envMaxRetry, browser, page, browsers, fn, mode, success,
                 enhancedError, final, context, result>>

\* page = await browser.newPage() resolves; initBrowser returns true; the
\* caller reads context.browser = getBrowser(), context.page = getPage()
NewPageOk(s) ==
  /\ pc[s] = "newPage"
  /\ browsers[local[s].launched].open
  /\ page' = local[s].launched
  /\ context' = [context EXCEPT ![s] = [browser |-> browser, page |-> page']]
  /\ pc' = [pc EXCEPT ![s] = "navigate"]
  /\ UNCHANGED <<call, envMaxRetry, budget, browser, browsers, fn, mode, retryCount,
                 success, enhancedError, final, local, hist, result>>

\* browser.newPage() rejects: initBrowser returns false, the caller throws
\* before context.browser is assigned
NewPageFail(s) ==
  /\ pc[s] = "newPage"
  /\ CanFail \/ ~browsers[local[s].launched].open
  /\ Spend
  /\ Catch(s, InitBrowserError, local[s], hist[s])
  /\ UNCHANGED <<call, envMaxRetry, browser, page, browsers, fn, mode, success,
                 enhancedError, final, context, result>>

\* closeBrowser() up to `await browser.close()`: nothing when browser is null
closeBrowserCall(s, closingPc, skipPc, l) ==
  IF browser = 0
  THEN /\ pc' = [pc EXCEPT ![s] = skipPc]
       /\ local' = [local EXCEPT ![s] = l]
       /\ UNCHANGED browsers
  ELSE /\ browsers' = [browsers EXCEPT ![browser].open = FALSE, ![browser].closedBy = s]
       /\ local' = [local EXCEPT ![s] = [l EXCEPT !.closing = browser]]
       /\ pc' = [pc EXCEPT ![s] = closingPc]

\* where the loop continues after the finally block
afterFinally(s) == IF local[s].stop THEN "exit" ELSE "loop"

\* closeBrowser() after `await browser.close()`: finally { browser = null; page = null }
CloseBrowserDone(s) ==
  /\ pc[s] \in {"n_closing", "b_closing", "f_closing"}
  /\ browser' = 0
  /\ page' = 0
  /\ pc' = [pc EXCEPT ![s] =
       CASE pc[s] = "n_closing" -> "n_convert"
         [] pc[s] = "b_closing" -> "b_convert"
         [] OTHER -> afterFinally(s)]
  /\ UNCHANGED <<call, envMaxRetry, budget, browsers, fn, mode, retryCount, success,
                 enhancedError, final, context, local, hist, result>>

(***************************************************************************)
(* PageNavigator.js, PageScroller.js, IframesHandler.js                    *)
(***************************************************************************)
\* an operation of session s on context.page: on a page of another session's browser?
pageOp(s, h) ==
  [h EXCEPT !.foreignOps =
     @ \/ (context[s].page # 0 /\ browsers[context[s].page].owner # s)]

\* await navigateToUrl(context.page, url): a rejection of page.goto or of a
\* load-state wait is caught inside, handled and answered with `return false`;
\* the callers do not read the returned value
navigateToUrl(s) ==
  /\ pc[s] = "navigate"
  /\ \E navigated \in BOOLEAN :
       /\ navigated => PageUsable(s)
       /\ ~navigated => CanFail \/ ~PageUsable(s)
       /\ IF navigated THEN UNCHANGED budget ELSE Spend
       /\ hist' = [hist EXCEPT ![s] = [pageOp(s, @) EXCEPT !.navFailed = ~navigated]]
  /\ pc' = [pc EXCEPT ![s] = "scroll"]
  /\ UNCHANGED <<call, envMaxRetry, browser, page, browsers, fn, mode, retryCount, success,
                 enhancedError, final, context, local, result>>

\* the scroll goes on to the mode's processing, past handleIframes
infiniteScroll_SkipsIframes(s) ==
  /\ pc[s] = "scroll"
  /\ hist' = [hist EXCEPT ![s] = [pageOp(s, @) EXCEPT !.ranAfterNavFail = @ \/ hist[s].navFailed]]
  /\ pc' = [pc EXCEPT ![s] = IF mode[s] = "normal" THEN "n_eval" ELSE "b_clone"]
  /\ UNCHANGED <<call, envMaxRetry, budget, browser, page, browsers, fn, mode, retryCount,
                 success, enhancedError, final, context, local, result>>

\* await infiniteScrollUntilNoMoreNewNetworkRequest(context.page): the whole
\* body is inside try/catch, it never rejects
infiniteScroll(s) ==
  /\ pc[s] = "scroll"
  /\ hist' = [hist EXCEPT ![s] = [pageOp(s, @) EXCEPT !.ranAfterNavFail = @ \/ hist[s].navFailed]]
  /\ pc' = [pc EXCEPT ![s] = "iframes"]
  /\ UNCHANGED <<call, envMaxRetry, budget, browser, page, browsers, fn, mode, retryCount,
                 success, enhancedError, final, context, local, result>>

\* await handleIframes(context.page): each frame's failure is caught inside;
\* then the mode branch up to the first await of processNormalMode
\* (page.evaluate) or of processBeastMode (page.evaluate of the clone)
handleIframes(s) ==
  /\ pc[s] = "iframes"
  /\ hist' = [hist EXCEPT ![s] = pageOp(s, @)]
  /\ pc' = [pc EXCEPT ![s] = IF mode[s] = "normal" THEN "n_eval" ELSE "b_clone"]
  /\ UNCHANGED <<call, envMaxRetry, budget, browser, page, browsers, fn, mode, retryCount,
                 success, enhancedError, final, context, local, result>>

(***************************************************************************)
(* WebScraper.js: processNormalMode                                        *)
(***************************************************************************)
\* await context.page.evaluate(remove style, link, script) resolves
NormalEvaluate(s) ==
  /\ pc[s] = "n_eval"
  /\ PageUsable(s)
  /\ hist' = [hist EXCEPT ![s] = pageOp(s, @)]
  /\ pc' = [pc EXCEPT ![s] = "n_content"]
  /\ UNCHANGED <<call, envMaxRetry, budget, browser, page, browsers, fn, mode, retryCount,
                 success, enhancedError, final, context, local, result>>

\* rawHTML = await context.page.content() resolves; await closeBrowser()
NormalContent(s) ==
  /\ pc[s] = "n_content"
  /\ PageUsable(s)
  /\ hist' = [hist EXCEPT ![s] = pageOp(s, @)]
  /\ closeBrowserCall(s, "n_closing", "n_convert", local[s])
  /\ UNCHANGED <<call, envMaxRetry, budget, browser, page, fn, mode, retryCount, success,
                 enhancedError, final, context, result>>

\* page.evaluate or page.content rejects in processNormalMode: nothing
\* catches it before the retry loop
NormalPageThrows(s) ==
  /\ pc[s] \in {"n_eval", "n_content"}
  /\ CanFail \/ ~PageUsable(s)
  /\ Spend
  /\ \E error \in (IF PageUsable(s) THEN ThrownErrors ELSE {ClosedTargetError}) :
       Catch(s, error, local[s], pageOp(s, hist[s]))
  /\ UNCHANGED <<call, envMaxRetry, browser, page, browsers, fn, mode, success,
                 enhancedError, final, context, result>>

\* what processNormalMode / processBeastMode return as enhancedError
modeResultError(s) ==
  IF pc[s] = "n_convert" THEN NoError ELSE local[s].enhancedError

\* fixAndFormatHTML and the markdown conversion resolve (the AI converters
\* answer '' on failure), the mode function returns, and the loop body runs
\* enhancedError = result.enhancedError; finalMarkdown = ...; success = true
ConvertOk(s) ==
  /\ pc[s] \in {"n_convert", "b_convert"}
  /\ enhancedError' = [enhancedError EXCEPT ![s] = modeResultError(s)]
  /\ final' = [final EXCEPT ![s] =
       IF fn[s] = "scrapeWithStreaming"
       THEN [markdown |-> hist[s].attempts, html |-> hist[s].attempts]
       ELSE @]
  /\ success' = [success EXCEPT ![s] = TRUE]
  /\ pc' = [pc EXCEPT ![s] = "finally"]
  /\ UNCHANGED <<call, envMaxRetry, budget, browser, page, browsers, fn, mode, retryCount,
                 context, local, hist, result>>

\* the conversion rejects after finalHtml was already assigned
ConvertThrows_KeepsHtml(s) ==
  /\ pc[s] \in {"n_convert", "b_convert"}
  /\ CanFail
  /\ Spend
  /\ final' = [final EXCEPT ![s].html = hist[s].attempts]
  /\ \E error \in ThrownErrors : Catch(s, error, local[s], hist[s])
  /\ UNCHANGED <<call, envMaxRetry, browser, page, browsers, fn, mode, success,
                 enhancedError, context, result>>

\* fixAndFormatHTML or convertToMarkdown rejects
ConvertThrows(s) ==
  /\ pc[s] \in {"n_convert", "b_convert"}
  /\ CanFail
  /\ Spend
  /\ \E error \in ThrownErrors : Catch(s, error, local[s], hist[s])
  /\ UNCHANGED <<call, envMaxRetry, browser, page, browsers, fn, mode, success,
                 enhancedError, final, context, result>>

(***************************************************************************)
(* WebScraper.js: processBeastMode                                         *)
(***************************************************************************)
\* the 800K character limit of the DOM snapshot
SNAPSHOT_LIMIT == 800000

\* clonedHTML.length as the page hands it back: -1 stands for a null
\* clonedHTML (the in-page clone answered null); '' (length 0) is also what
\* the two fallbacks leave when page.evaluate and page.content both reject
SnapshotLengths == {-1, 0, SNAPSHOT_LIMIT - 1, SNAPSHOT_LIMIT, SNAPSHOT_LIMIT + 1}

\* the size test with >= in place of >
skipAIAnalysis_Inclusive(length) == length >= SNAPSHOT_LIMIT

\* if (clonedHTML.length > 800000)
skipAIAnalysis(length) == length > SNAPSHOT_LIMIT

\* clonedHTML = await context.page.evaluate(clone) settles; then the size
\* test: .length of null throws a TypeError, an oversized snapshot enters
\* processNormalMode, any other is passed to findInteractiveElements
BeastClone(s) ==
  /\ pc[s] = "b_clone"
  /\ \E length \in SnapshotLengths :
       LET l == [local[s] EXCEPT !.snapshot = length]
           h == pageOp(s, hist[s])
       IN IF length = -1
          THEN /\ Catch(s, NullTypeError, l, h)
          ELSE /\ local' = [local EXCEPT ![s] = l]
               /\ UNCHANGED retryCount
               /\ IF skipAIAnalysis(length)
                  THEN /\ hist' = [hist EXCEPT ![s] = [h EXCEPT !.oversized = TRUE]]
                       /\ pc' = [pc EXCEPT ![s] = "n_eval"]
                  ELSE /\ hist' = [hist EXCEPT ![s] = [h EXCEPT !.aiCalls = @ + 1]]
                       /\ pc' = [pc EXCEPT ![s] = "b_ai"]
  /\ UNCHANGED <<call, envMaxRetry, budget, browser, page, browsers, fn, mode, success,
                 enhancedError, final, context, result>>

\* interactiveElements = await findInteractiveElements(...) resolves with
\* 0..MaxElements elements; with elements, processInteractiveElementsContent
\* is called, else combineContent
BeastAIOk(s) ==
  /\ pc[s] = "b_ai"
  /\ \E n \in 0 .. MaxElements :
       /\ local' = [local EXCEPT ![s].elements = n]
       /\ pc' = [pc EXCEPT ![s] = IF n > 0 THEN "b_interact" ELSE "b_combine"]
  /\ UNCHANGED <<call, envMaxRetry, budget, browser, page, browsers, fn, mode, retryCount,
                 success, enhancedError, final, context, hist, result>>

\* throw handledError: an EnhancedError built from error.message alone, it
\* has no code, no status and a stack of its own
rethrown(error) == Err(error.kw, "none", 0)

\* findInteractiveElements rejects: catch (error) { handledError = await
\* handleError(error); if (!handledError.shouldRetry) { enhancedError =
\* handledError; interactiveElements = { elements: [] } } else throw handledError }
BeastAIFail(s) ==
  /\ pc[s] = "b_ai"
  /\ CanFail
  /\ Spend
  /\ \E error \in ThrownErrors :
       LET h == [hist[s] EXCEPT !.aiFailed = error] IN
       IF ~handleError(error).shouldRetry
       THEN /\ local' = [local EXCEPT ![s] = [@ EXCEPT !.enhancedError = error, !.elements = 0]]
            /\ hist' = [hist EXCEPT ![s] = h]
            /\ pc' = [pc EXCEPT ![s] = "b_combine"]
            /\ UNCHANGED retryCount
       ELSE Catch(s, rethrown(error), local[s], h)
  /\ UNCHANGED <<call, envMaxRetry, browser, page, browsers, fn, mode, success,
                 enhancedError, final, context, result>>

\* dynamicContents = await processInteractiveElementsContent(page, elements):
\* its body is inside try/catch and answers [] on failure, it never rejects
BeastInteract(s) ==
  /\ pc[s] = "b_interact"
  /\ hist' = [hist EXCEPT ![s] = [pageOp(s, @) EXCEPT !.interactions = local[s].elements]]
  /\ pc' = [pc EXCEPT ![s] = "b_combine"]
  /\ UNCHANGED <<call, envMaxRetry, budget, browser, page, browsers, fn, mode, retryCount,
                 success, enhancedError, final, context, local, result>>

\* combinedHtml = await combineContent(page, dynamicContents): it answers the
\* page content or '' on failure, it never rejects; await closeBrowser()
BeastCombine(s) ==
  /\ pc[s] = "b_combine"
  /\ hist' = [hist EXCEPT ![s] = [pageOp(s, @) EXCEPT !.combined = TRUE]]
  /\ closeBrowserCall(s, "b_closing", "b_convert", local[s])
  /\ UNCHANGED <<call, envMaxRetry, budget, browser, page, fn, mode, retryCount, success,
                 enhancedError, final, context, result>>

(***************************************************************************)
(* WebScraper.js: the rest of the retry loop and the result                *)
(***************************************************************************)
\* await new Promise(resolve => setTimeout(resolve, delay)) resolves
RetryWait(s) ==
  /\ pc[s] = "retryWait"
  /\ pc' = [pc EXCEPT ![s] = "finally"]
  /\ UNCHANGED <<call, envMaxRetry, budget, browser, page, browsers, fn, mode, retryCount,
                 success, enhancedError, final, context, local, hist, result>>

\* finally { if (context && context.browser) await closeBrowser(); ... }
Finally(s) ==
  /\ pc[s] = "finally"
  /\ IF context[s].browser # 0
     THEN closeBrowserCall(s, "f_closing", afterFinally(s), local[s])
     ELSE /\ pc' = [pc EXCEPT ![s] = afterFinally(s)]
          /\ UNCHANGED <<browsers, local>>
  /\ UNCHANGED <<call, envMaxRetry, budget, browser, page, fn, mode, retryCount, success,
                 enhancedError, final, context, hist, result>>

\* scrapeWithStreaming: result = { success, markdown: finalMarkdown, html:
\* finalHtml, processingTime, enhancedError } (no error field);
\* scrape: return success
buildResult(s) ==
  [ returned |-> TRUE,
    success |-> success[s],
    markdown |-> final[s].markdown,
    html |-> final[s].html,
    enhancedError |-> IF fn[s] = "scrapeWithStreaming" THEN enhancedError[s] ELSE NoError,
    error |-> NoError ]

\* the loop is left (its test fails, or break) and the entry point returns
Return(s) ==
  /\ pc[s] = "exit" \/ (pc[s] = "loop" /\ ~loopTest(s))
  /\ result' = [result EXCEPT ![s] = buildResult(s)]
  /\ pc' = [pc EXCEPT ![s] = "done"]
  /\ UNCHANGED <<call, envMaxRetry, budget, browser, page, browsers, fn, mode, retryCount,
                 success, enhancedError, final, context, local, hist>>

Next ==
  \E s \in Sessions :
    \/ StartAttempt(s)
    \/ LaunchOk(s)
    \/ LaunchFail(s)
    \/ NewPageOk(s)
    \/ NewPageFail(s)
    \/ navigateToUrl(s)
    \/ infiniteScroll(s)
    \/ handleIframes(s)
    \/ NormalEvaluate(s)
    \/ NormalContent(s)
    \/ NormalPageThrows(s)
    \/ CloseBrowserDone(s)
    \/ ConvertOk(s)
    \/ ConvertThrows(s)
    \/ BeastClone(s)
    \/ BeastAIOk(s)
    \/ BeastAIFail(s)
    \/ BeastInteract(s)
    \/ BeastCombine(s)
    \/ RetryWait(s)
    \/ Finally(s)
    \/ Return(s)

Spec == Init /\ [][Next]_vars

\* two requests overlap in one server process: both call scrapeWithStreaming
\* in normal mode (README.md server: app.post('/scrape')); the collaborators
\* reject only where one session's closeBrowser hit the other's browser
InitConcurrent ==
  /\ envMaxRetry = 0
  /\ budget = 0
  /\ InitSession({1, 2})
  /\ \A s \in Sessions : fn[s] = "scrapeWithStreaming" /\ mode[s] = "normal"
  /\ call = "none"

NextConcurrent ==
  \E s \in Sessions :
    \/ StartAttempt(s)
    \/ LaunchOk(s)
    \/ NewPageOk(s)
    \/ NewPageFail(s)
    \/ navigateToUrl(s)
    \/ infiniteScroll(s)
    \/ handleIframes(s)
    \/ NormalEvaluate(s)
    \/ NormalContent(s)
    \/ NormalPageThrows(s)
    \/ CloseBrowserDone(s)
    \/ ConvertOk(s)
    \/ RetryWait(s)
    \/ Finally(s)
    \/ Return(s)

SpecConcurrent == InitConcurrent /\ [][NextConcurrent]_vars

(***************************************************************************)
(* Properties of the retry loop                                            *)
(***************************************************************************)
Returned(s) == pc[s] = "done"

\* every attempt the session made ended in the catch block
EveryAttemptFailed(s) == hist[s].attempts >= 1 /\ hist[s].failed = hist[s].attempts

\* C1: a session (scrape or scrapeWithStreaming) never makes more than
\* MAX_RETRY_COUNT attempts, and one whose every attempt failed with an error
\* classified retryable has made exactly MAX_RETRY_COUNT attempts when it
\* returns, and returns failure.
C1_RetryBound ==
  \A s \in Sessions :
    /\ hist[s].attempts <= MAX_RETRY_COUNT
    /\ Returned(s) /\ EveryAttemptFailed(s) /\ hist[s].allRetryable
         => /\ hist[s].attempts = MAX_RETRY_COUNT
            /\ ~result[s].success

C1_Witness ==
  \E s \in Sessions :
    /\ Returned(s) /\ EveryAttemptFailed(s) /\ hist[s].allRetryable
    /\ fn[s] = "scrapeWithStreaming"
    /\ hist[s].attempts = 3
    /\ ~result[s].success

\* C2: a session whose first attempt failed with an error classified ai, file
\* or rate_limit makes exactly one attempt and waits no retry delay.
C2_NonRetryableSingleAttempt ==
  \A s \in Sessions :
    hist[s].firstCategory \in {"ai", "file", "rate_limit"}
      => hist[s].attempts = 1 /\ hist[s].delays = 0 /\ pc[s] # "retryWait"

\* C3: after every attempt (the session is back at the loop test, has left
\* the loop or has returned) every browser the session launched is closed
\* and the module-level browser and page are null.
C3_BrowserReleased ==
  \A s \in Sessions :
    pc[s] \in {"loop", "exit", "done"}
      => /\ \A b \in DOMAIN browsers : browsers[b].owner = s => ~browsers[b].open
         /\ browser = 0
         /\ page = 0

\* C4: with two overlapping sessions, a session's context holds only the
\* browser and page it launched itself, it operates on no other page, a
\* browser is closed only by the session that launched it, and once both
\* sessions have returned no browser is left open.
C4_SessionIsolation ==
  /\ \A s \in Sessions :
       /\ context[s].browser # 0 => browsers[context[s].browser].owner = s
       /\ context[s].page # 0 => browsers[context[s].page].owner = s
       /\ ~hist[s].foreignOps
  /\ \A b \in DOMAIN browsers : browsers[b].closedBy \in {0, browsers[b].owner}
  /\ (\A s \in Sessions : Returned(s)) => \A b \in DOMAIN browsers : ~browsers[b].open

\* C5: the result of scrapeWithStreaming is a success (with or without
\* enhancedError) or a failure with markdown and html null; markdown and html
\* are never held without success, and when non-null they are those of the
\* last attempt, which completed its mode processing and did not fail.
C5_ResultShape ==
  \A s \in Sessions :
    /\ final[s].markdown # 0 \/ final[s].html # 0 => success[s]
    /\ Returned(s) /\ fn[s] = "scrapeWithStreaming" =>
         /\ ~result[s].success => result[s].markdown = 0 /\ result[s].html = 0
         /\ result[s].markdown # 0 \/ result[s].html # 0 =>
              /\ result[s].success
              /\ result[s].markdown = hist[s].attempts
              /\ result[s].html = hist[s].attempts
              /\ hist[s].failed = hist[s].attempts - 1
         /\ result[s].success /\ result[s].enhancedError # NoError =>
              result[s].enhancedError = hist[s].aiFailed

C5_Witness ==
  \E s \in Sessions :
    /\ Returned(s) /\ fn[s] = "scrapeWithStreaming"
    /\ result[s].success
    /\ result[s].enhancedError # NoError
    /\ result[s].markdown = 2
    /\ hist[s].failed = 1

\* C6: a scrapeWithStreaming result with success=false carries the error of
\* the last attempt in its error or its enhancedError field.
C6_FailureSurfacesError ==
  \A s \in Sessions :
    Returned(s) /\ fn[s] = "scrapeWithStreaming" /\ ~result[s].success
      => \/ result[s].error # NoError /\ result[s].error = hist[s].lastError
         \/ result[s].enhancedError # NoError /\ result[s].enhancedError = hist[s].lastError

\* C7: an attempt whose navigation failed runs no scroll, iframe or
\* extraction phase and is not reported as a success.
C7_NavigationFailureAbandons ==
  \A s \in Sessions :
    /\ ~hist[s].ranAfterNavFail
    /\ hist[s].navFailed =>
         /\ pc[s] \notin {"iframes", "n_eval", "n_content", "n_closing", "n_convert",
                          "b_clone", "b_ai", "b_interact", "b_combine", "b_closing",
                          "b_convert"}
         /\ ~success[s]

\* C8: in beast mode a snapshot longer than SNAPSHOT_LIMIT characters is never
\* passed to the AI and no element is interacted with; the attempt then is
\* the normal-mode processing, and when that completes the session succeeds
\* with enhancedError null.  A snapshot of at most SNAPSHOT_LIMIT characters
\* is passed to the AI.
C8_OversizedFallsBack ==
  \A s \in Sessions :
    /\ local[s].snapshot > SNAPSHOT_LIMIT =>
         /\ hist[s].oversized
         /\ hist[s].aiCalls = 0 /\ hist[s].interactions = 0 /\ ~hist[s].combined
         /\ hist[s].aiFailed = NoError
         /\ pc[s] \notin {"b_ai", "b_interact", "b_combine", "b_closing", "b_convert"}
         /\ success[s] => enhancedError[s] = NoError
         /\ Returned(s) /\ hist[s].failed < hist[s].attempts =>
              result[s].success /\ result[s].enhancedError = NoError
    /\ local[s].snapshot \in 0 .. SNAPSHOT_LIMIT =>
         /\ ~hist[s].oversized
         /\ hist[s].aiCalls = 1
         /\ pc[s] \notin {"n_eval", "n_content", "n_closing", "n_convert"}
    /\ hist[s].oversized => local[s].snapshot > SNAPSHOT_LIMIT

C8_Witness ==
  \E s \in Sessions :
    /\ Returned(s) /\ mode[s] = "beast"
    /\ local[s].snapshot = SNAPSHOT_LIMIT + 1
    /\ hist[s].oversized
    /\ result[s].success

\* C9: when the AI analysis of beast mode fails with an error classified
\* non-retryable, the attempt goes on with no element, and a success of it
\* carries that error as enhancedError; when the error is classified
\* retryable, the attempt fails and the retry loop counts it: retryCount is
\* incremented and the loop is not left by break.
C9_AIFailureHandling ==
  \A s \in Sessions :
    hist[s].aiFailed # NoError =>
      IF ~handleError(hist[s].aiFailed).shouldRetry
      THEN /\ local[s].enhancedError = hist[s].aiFailed
           /\ local[s].elements = 0 /\ hist[s].interactions = 0
           /\ success[s] => enhancedError[s] = hist[s].aiFailed
      ELSE /\ hist[s].failed = hist[s].attempts
           /\ ~success[s]
           /\ ~local[s].stop
           /\ retryCount[s] = hist[s].failed

\* C10: an error with a rate-limit indicator (message 'rate limit' or '429',
\* or status 429) is classified rate_limit and no attempt follows it; an
\* attempt follows a failed one only when the error was classified network,
\* timeout, browser or unknown.
C10_RateLimitAborts ==
  \A s \in Sessions :
    hist[s].failed >= 1 =>
      /\ HasRateLimitIndicator(hist[s].lastError) =>
           /\ _classifyError(hist[s].lastError) = "rate_limit"
           /\ hist[s].attempts = hist[s].failed
           /\ pc[s] # "retryWait"
      /\ hist[s].attempts > hist[s].failed =>
           _classifyError(hist[s].lastError) \in {"network", "timeout", "browser", "unknown"}

(***************************************************************************)
(* A component call studied on its own: the sessions stay idle             *)
(***************************************************************************)
InitCall(c) ==
  /\ envMaxRetry = 0
  /\ budget = 0
  /\ InitSession({})
  /\ \A s \in Sessions : fn[s] = "scrape" /\ mode[s] = "normal"
  /\ call = c

sessionVars == <<envMaxRetry, budget, browser, page, browsers, fn, mode, pc, retryCount,
                 success, enhancedError, final, context, local, hist, result>>

(***************************************************************************)
(* ContentCombiner.js: the page document and the sanitation pass           *)
(***************************************************************************)
MaxNodes == 2   \* most elements below body in the page combineContent is given
MaxItems == 2   \* most revealed items in dynamicContents

\* A document is the sequence, in document order, of the elements below
\* body; an element is a record of its tag, its parent (0 is body), its
\* class, its other attribute names, the length of its own text, and
\* whether it is still in the document.  An element taken out of the
\* document (element.remove(), innerHTML = '') is left as:
Removed == [tag |-> "", parent |-> 0, cls |-> "", attrs |-> {}, text |-> 0, live |-> FALSE]

\* element.closest(selector) for a selector that is a list of tag names
RECURSIVE closest(_, _, _)
closest(d, i, tags) ==
  IF i = 0 THEN FALSE
  ELSE IF d[i].tag \in tags THEN TRUE
  ELSE closest(d, d[i].parent, tags)

\* Node.contains: a is i or an ancestor of i (0 is body)
RECURSIVE contains(_, _, _)
contains(d, a, i) ==
  IF i = a THEN TRUE
  ELSE IF i = 0 THEN FALSE
  ELSE contains(d, a, d[i].parent)

\* the documents of at most n elements over the given tags, classes and
\* attribute sets; script elements have no element children
Documents(tags, classes, attrSets, n) ==
  UNION { { d \in [1 .. k -> [tag : tags, parent : 0 .. n, cls : classes,
                               attrs : attrSets, text : {0}, live : {TRUE}]] :
            \A i \in 1 .. k :
              /\ d[i].parent < i
              /\ d[i].parent # 0 => d[d[i].parent].tag # "SCRIPT"
              /\ i > 1 /\ d[i].parent # 0 => contains(d, d[i].parent, i - 1) }
          : k \in 0 .. n }

\* attribute names the sanitation of src/core keeps besides class: id, data-*
\* and aria-* (the names of this kind that occur in the model)
KeptAttributes ==
  {"id", "data-dynamic-content", "data-interaction-type", "data-selector", "aria-label"}

\* the elements the sanitation of apps/scraper leaves untouched
importantElements ==
  {"IFRAME", "CODE", "PRE", "A", "IMG", "FORM", "INPUT", "VIDEO", "AUDIO", "BUTTON",
   "SELECT", "TEXTAREA", "CANVAS", "SVG", "LINK"}

\* the sanitation with the attribute loop run over the live element.attributes
\* instead of a copy of it: of the attributes to strip, one is left in place
Sanitize_LiveList(d, variant) ==
  [i \in DOMAIN d |->
     IF ~d[i].live \/ closest(d, i, {"SCRIPT", "STYLE"}) THEN Removed
     ELSE LET exempt ==
                IF variant = "src"
                THEN d[i].tag \in {"IFRAME", "CODE", "PRE"} \/ closest(d, i, {"TABLE"})
                ELSE \/ d[i].tag \in importantElements
                     \/ closest(d, i, {"TABLE", "IFRAME", "CODE", "PRE"})
              strip == IF variant = "src" THEN d[i].attrs \ KeptAttributes ELSE d[i].attrs
              left == IF Cardinality(strip) > 1 THEN {CHOOSE a \in strip : TRUE} ELSE {}
          IN IF exempt THEN d[i]
             ELSE [d[i] EXCEPT !.attrs = (@ \ strip) \cup left,
                               !.cls = IF variant = "src" THEN @ ELSE ""]]

\* document.querySelectorAll('script, style').forEach(e => e.remove()), then
\* for every element: strip its attributes unless the element is exempt.
\* variant "src": IFRAME, CODE, PRE and everything in a table are exempt,
\* class, id, data-* and aria-* are kept.  variant "apps": importantElements
\* and everything in a table, iframe, code or pre are exempt, every
\* attribute is removed.
Sanitize(d, variant) ==
  [i \in DOMAIN d |->
     IF ~d[i].live \/ closest(d, i, {"SCRIPT", "STYLE"}) THEN Removed
     ELSE IF variant = "src"
     THEN IF d[i].tag \in {"IFRAME", "CODE", "PRE"} THEN d[i]
          ELSE IF d[i].tag # "TABLE" /\ ~closest(d, i, {"TABLE"})
          THEN [d[i] EXCEPT !.attrs = @ \cap KeptAttributes]
          ELSE d[i]
     ELSE IF \/ d[i].tag \in importantElements
             \/ closest(d, i, {"TABLE"})
             \/ closest(d, i, {"IFRAME", "CODE", "PRE"})
          THEN d[i]
          ELSE [d[i] EXCEPT !.attrs = {}, !.cls = ""]]

(***************************************************************************)
(* ContentCombiner.js: the placement cascade                               *)
(***************************************************************************)
\* element.textContent.length: the text of the element and its descendants
RECURSIVE textContent(_, _, _)
textContent(d, i, n) ==
  IF n > Len(d) THEN 0
  ELSE (IF d[n].live /\ contains(d, i, n) THEN d[n].text ELSE 0) + textContent(d, i, n + 1)

\* tempDiv.innerHTML = revealedHTML; revealedElement = tempDiv.firstElementChild,
\* then the three setAttribute calls.  revealedHTML is "" or the html of one
\* element: a div with class and text, or a style element.
revealedElement(item, parent) ==
  [tag |-> item.revealedHTML, parent |-> parent,
   cls |-> IF item.revealedHTML = "DIV" THEN "c" ELSE "",
   attrs |-> {"data-dynamic-content", "data-interaction-type", "data-selector"},
   text |-> IF item.revealedHTML = "DIV" THEN 1 ELSE 0, live |-> TRUE]

targetElement_FirstCandidate(d, item) ==
  LET resolve(path) == IF path > 0 /\ path <= Len(d) /\ d[path].live THEN path ELSE 0
      revealed == revealedElement(item, 0)
      score(i) ==
        (IF textContent(d, i, 1) > 0 /\ textContent(d, i, 1) = revealed.text THEN 3 ELSE 0)
        + (IF d[i].cls # "" /\ d[i].cls = revealed.cls THEN 1 ELSE 0)
      candidates == { i \in 1 .. Len(d) :
                        /\ d[i].live
                        /\ "data-dynamic-content" \notin d[i].attrs
                        /\ d[i].tag = revealed.tag
                        /\ score(i) > 0 }
      first == CHOOSE i \in candidates : \A j \in candidates : i <= j
  IN IF resolve(item.xpath) # 0 THEN resolve(item.xpath)
     ELSE IF resolve(item.cssPath) # 0 THEN resolve(item.cssPath)
     ELSE IF item.boundingRect /\ candidates # {} THEN first
     ELSE 0

\* strategies 1 to 4: the element the item is placed at (0 is document.body).
\* A path is 0 (absent), -1 (resolves to no node) or the element it names.
targetElement(d, item) ==
  LET resolve(path) == IF path > 0 /\ path <= Len(d) /\ d[path].live THEN path ELSE 0
      revealed == revealedElement(item, 0)
      score(i) ==
        (IF textContent(d, i, 1) > 0 /\ textContent(d, i, 1) = revealed.text THEN 3 ELSE 0)
        + (IF d[i].cls # "" /\ d[i].cls = revealed.cls THEN 1 ELSE 0)
      candidates == { i \in 1 .. Len(d) :
                        /\ d[i].live
                        /\ "data-dynamic-content" \notin d[i].attrs
                        /\ d[i].tag = revealed.tag
                        /\ score(i) > 0 }
      best == CHOOSE i \in candidates :
                \A j \in candidates : score(j) < score(i) \/ (score(j) = score(i) /\ i <= j)
  IN IF resolve(item.xpath) # 0 THEN resolve(item.xpath)
     ELSE IF resolve(item.cssPath) # 0 THEN resolve(item.cssPath)
     ELSE IF item.boundingRect /\ candidates # {} THEN best
     ELSE 0

placeItem_AlwaysReplaces(m, item) ==
  LET d == m.dom
      t == targetElement(d, item)
  IN IF item.revealedHTML = ""
     THEN [dom |-> d, placed |-> Append(m.placed, "skipped")]
     ELSE IF t = 0
     THEN [dom |-> Append(d, revealedElement(item, 0)), placed |-> Append(m.placed, "body")]
     ELSE [dom |-> Append([n \in DOMAIN d |->
                             IF n = t THEN [d[n] EXCEPT !.text = 0]
                             ELSE IF contains(d, t, n) THEN Removed
                             ELSE d[n]],
                          revealedElement(item, t)),
           placed |-> Append(m.placed, "replaced")]

\* one pass of the for loop over config.dynamicContents: m is the document
\* and, per item, where its element went ("skipped", "body", "replaced":
\* the target's content was replaced by it, "sibling": wrapped after the target)
placeItem(m, item) ==
  LET d == m.dom
      t == targetElement(d, item)
      hasChildren == \E n \in 1 .. Len(d) : d[n].live /\ d[n].parent = t
  IN IF item.revealedHTML = ""
     THEN [dom |-> d, placed |-> Append(m.placed, "skipped")]
     ELSE IF t = 0
     THEN [dom |-> Append(d, revealedElement(item, 0)), placed |-> Append(m.placed, "body")]
     ELSE IF textContent(d, t, 1) = revealedElement(item, 0).text \/ ~hasChildren
     THEN [dom |-> Append([n \in DOMAIN d |->
                             IF n = t THEN [d[n] EXCEPT !.text = 0]
                             ELSE IF contains(d, t, n) THEN Removed
                             ELSE d[n]],
                          revealedElement(item, t)),
           placed |-> Append(m.placed, "replaced")]
     ELSE [dom |-> d \o << [tag |-> "DIV", parent |-> d[t].parent, cls |-> "dynamic-content-wrapper",
                            attrs |-> {}, text |-> 0, live |-> TRUE],
                          revealedElement(item, Len(d) + 1) >>,
           placed |-> Append(m.placed, "sibling")]

RECURSIVE placeItems(_, _)
placeItems(m, items) ==
  IF items = << >> THEN m ELSE placeItems(placeItem(m, Head(items)), Tail(items))

(***************************************************************************)
(* ContentCombiner.js: combineContent                                      *)
(***************************************************************************)
\* the revealed items processInteractiveElementsContent builds, and the
\* shapes combineContent guards against: empty revealedHTML, a path that is
\* absent (0) or names no node (-1); path 1 names the first element of body.
\* The CSS path is looked at only when the XPath named no node.
RevealedItems ==
  { item \in [revealedHTML : {"", "DIV", "STYLE"}, xpath : {0, -1, 1}, cssPath : {0, -1},
              boundingRect : BOOLEAN] :
      /\ item.revealedHTML = "" => item.xpath = 0 /\ item.cssPath = 0 /\ ~item.boundingRect
      /\ item.revealedHTML # "" => item.xpath # 0
      /\ item.cssPath # 0 => item.xpath = -1 }

combineContent(variant, d, dynamicContents) ==
  [fn |-> "combineContent", variant |-> variant, dom |-> d,
   dynamicContents |-> dynamicContents,
   pc |-> IF Len(dynamicContents) = 0 THEN "sanitize" ELSE "merge",
   placed |-> << >>, raised |-> "none", contentFailed |-> FALSE,
   result |-> [kind |-> "pending"]]

\* await page.evaluate(config => { for (const dynamicItem of ...) ... }):
\* it resolves, or it rejects with the loop run or not
CombineMerge ==
  /\ call.pc = "merge"
  /\ \E resolved \in BOOLEAN, ran \in BOOLEAN :
       LET m == IF ran
                THEN placeItems([dom |-> call.dom, placed |-> << >>], call.dynamicContents)
                ELSE [dom |-> call.dom, placed |-> << >>]
       IN /\ resolved => ran
          /\ call' = [call EXCEPT !.dom = m.dom, !.placed = m.placed,
                                  !.pc = IF resolved THEN "sanitize" ELSE "fallback",
                                  !.raised = IF resolved THEN @ ELSE "merge"]
  /\ UNCHANGED sessionVars

\* await page.evaluate(() => { remove script, style; strip attributes })
CombineSanitize ==
  /\ call.pc = "sanitize"
  /\ \E resolved \in BOOLEAN :
       call' = [call EXCEPT !.dom = IF resolved THEN Sanitize(@, call.variant) ELSE @,
                            !.pc = IF resolved THEN "content" ELSE "fallback",
                            !.raised = IF resolved THEN @ ELSE "sanitize"]
  /\ UNCHANGED sessionVars

\* return await page.content()
CombineContent ==
  /\ call.pc = "content"
  /\ \E resolved \in BOOLEAN :
       call' = [call EXCEPT !.pc = IF resolved THEN "done" ELSE "fallback",
                            !.raised = IF resolved THEN @ ELSE "content",
                            !.result = IF resolved THEN [kind |-> "html", dom |-> call.dom]
                                       ELSE @]
  /\ UNCHANGED sessionVars

\* the catch block without its inner try: a rejection of page.content leaves
\* combineContent
CombineFallback_Propagates ==
  /\ call.pc = "fallback"
  /\ \E resolved \in BOOLEAN :
       call' = [call EXCEPT !.pc = "done",
                            !.contentFailed = ~resolved,
                            !.result = IF resolved THEN [kind |-> "html", dom |-> call.dom]
                                       ELSE [kind |-> "rejected"]]
  /\ UNCHANGED sessionVars

\* catch: try { return await page.content() } catch { return '' }
CombineFallback ==
  /\ call.pc = "fallback"
  /\ \E resolved \in BOOLEAN :
       call' = [call EXCEPT !.pc = "done",
                            !.contentFailed = ~resolved,
                            !.result = IF resolved THEN [kind |-> "html", dom |-> call.dom]
                                       ELSE [kind |-> "empty"]]
  /\ UNCHANGED sessionVars

\* combineContent on pages over every tag the sanitation distinguishes and
\* no revealed item
InitSanitize ==
  \E variant \in {"src", "apps"} :
    \E d \in Documents({"DIV", "TABLE", "CODE", "SCRIPT"}, {"", "c"},
                       {{}, {"style"}, {"style", "aria-label"}}, MaxNodes) :
      InitCall(combineContent(variant, d, << >>))

SpecSanitize ==
  InitSanitize /\ [][CombineSanitize \/ CombineContent \/ CombineFallback]_vars

\* combineContent with revealed items on pages of div elements of one class
InitCombine ==
  \E variant \in {"src", "apps"} :
    \E d \in Documents({"DIV"}, {"c"}, {{}}, MaxNodes) :
      \E k \in 1 .. MaxItems :
        \E dynamicContents \in [1 .. k -> RevealedItems] :
          InitCall(combineContent(variant, d, dynamicContents))

SpecCombine ==
  InitCombine
    /\ [][CombineMerge \/ CombineSanitize \/ CombineContent \/ CombineFallback]_vars

(***************************************************************************)
(* Properties of combineContent                                            *)
(***************************************************************************)
\* C11: combineContent always resolves, with a document or with the empty
\* string: with the page content as it is when no step raised, with the
\* current page content when the merge, the sanitation or the first read
\* raised and the read of the catch block worked, and with '' when that read
\* failed too.
C11_CombineNeverRejects ==
  /\ call.pc \in {"merge", "sanitize", "content", "fallback", "done"}
  /\ call.pc = "done" =>
       /\ call.result.kind \in {"html", "empty"}
       /\ ~call.contentFailed => call.result = [kind |-> "html", dom |-> call.dom]
       /\ call.contentFailed => call.raised # "none" /\ call.result = [kind |-> "empty"]
  /\ call.pc # "done" => call.result.kind = "pending"

C11_Witness ==
  /\ call.pc = "done"
  /\ call.raised = "merge"
  /\ call.placed # << >>
  /\ call.result = [kind |-> "html", dom |-> call.dom]

\* the item has revealed html and neither of its paths names a node
Unresolved(item) == item.revealedHTML # "" /\ item.xpath <= 0 /\ item.cssPath <= 0

\* the document holds an element with the tag and the text of the item's
InDocument(item, d) ==
  \E n \in DOMAIN d :
    /\ d[n].live
    /\ d[n].tag = item.revealedHTML
    /\ d[n].text = revealedElement(item, 0).text

\* C12: when no page operation fails, every item with revealed html
\* whose XPath and CSS path resolve to no node is appended to the end of
\* body, and the returned document is non-empty and holds its content.
C12_UnresolvedAppendedToBody ==
  call.pc = "done" /\ call.raised = "none" =>
    \A k \in DOMAIN call.dynamicContents :
      Unresolved(call.dynamicContents[k]) =>
        /\ call.placed[k] = "body"
        /\ call.result.kind = "html"
        /\ InDocument(call.dynamicContents[k], call.result.dom)

\* C14: the sanitation is idempotent: on a document that went through it, a
\* second pass changes nothing.
C14_SanitationIdempotent ==
  call.pc = "content" \/ (call.pc = "done" /\ call.raised \in {"none", "content"}) =>
    Sanitize(call.dom, call.variant) = call.dom

C14_Witness ==
  /\ call.pc = "done" /\ call.raised = "none"
  /\ call.variant = "apps"
  /\ \E i \in DOMAIN call.dom : call.dom[i].live /\ call.dom[i].tag = "TABLE"
  /\ \E i \in DOMAIN call.dom : ~call.dom[i].live

(***************************************************************************)
(* ModalHandler.js getXPath and interactionTracker.getXPath                *)
(***************************************************************************)
MaxTree == 3   \* most elements below body in the page a locator is built on

\* An XPath is a base, //*[@id=..] ("id"), //tag[@class=..] ("class") or
\* /html/body ("body"), followed by steps /name or /name[index], name a tag
\* or "*".  document.evaluate(xpath, document): the set of selected elements
\* (0 is body); an index counts among the children of one parent that match
\* the name.
RECURSIVE evaluate(_, _)
evaluate(d, xpath) ==
  IF xpath.steps = << >>
  THEN IF xpath.base = "body" THEN {0}
       ELSE IF xpath.base = "id" THEN { i \in DOMAIN d : "id" \in d[i].attrs }
       ELSE { i \in DOMAIN d : d[i].tag = xpath.tag /\ d[i].cls = xpath.value }
  ELSE LET step == xpath.steps[Len(xpath.steps)]
           from == evaluate(d, [xpath EXCEPT !.steps = SubSeq(@, 1, Len(@) - 1)])
           match(q) == { i \in DOMAIN d :
                           d[i].parent = q /\ (step.name = "*" \/ d[i].tag = step.name) }
       IN { i \in DOMAIN d :
              /\ d[i].parent \in from
              /\ i \in match(d[i].parent)
              /\ step.index # 0 =>
                   Cardinality({ j \in match(d[i].parent) : j <= i }) = step.index }

\* ModalHandler.js getXPath for an element without text and without the
\* attributes name, data-testid, data-id, aria-label, title, role, type:
\* method 1 (id), 2 (one class), 3 (the class attribute), 5 (position among
\* all siblings), 6 (position among siblings of the same tag); methods 1 to
\* 5 return a path only when isXPathUnique finds that it selects one node
RECURSIVE getXPath(_, _)
getXPath(d, element) ==
  IF element = 0 THEN [base |-> "body", steps |-> << >>]
  ELSE
    LET e == d[element]
        isXPathUnique(xpath) == Cardinality(evaluate(d, xpath)) = 1
        idXPath == [base |-> "id", steps |-> << >>]
        classXPath(cls) == [base |-> "class", tag |-> e.tag, value |-> cls, steps |-> << >>]
        classes == IF e.cls = "a b" THEN <<"a", "b">> ELSE IF e.cls = "" THEN << >> ELSE <<e.cls>>
        uniqueClasses == { k \in DOMAIN classes : isXPathUnique(classXPath(classes[k])) }
        firstUnique == CHOOSE k \in uniqueClasses : \A j \in uniqueClasses : k <= j
        parentPath == getXPath(d, e.parent)
        allSiblings == { i \in DOMAIN d : d[i].parent = e.parent }
        siblings == { i \in allSiblings : d[i].tag = e.tag }
        position(among) == Cardinality({ i \in among : i <= element })
        positionXPath ==
          [parentPath EXCEPT !.steps = Append(@, [name |-> "*", index |-> position(allSiblings)])]
    IN IF "id" \in e.attrs /\ isXPathUnique(idXPath) THEN idXPath
       ELSE IF uniqueClasses # {} THEN classXPath(classes[firstUnique])
       ELSE IF e.cls # "" /\ isXPathUnique(classXPath(e.cls)) THEN classXPath(e.cls)
       ELSE IF isXPathUnique(positionXPath) THEN positionXPath
       ELSE IF Cardinality(siblings) = 1
       THEN [parentPath EXCEPT !.steps = Append(@, [name |-> e.tag, index |-> 0])]
       ELSE [parentPath EXCEPT !.steps =
               Append(@, [name |-> e.tag, index |-> position(siblings)])]

\* interactionTracker.getXPath: //*[@id=..] when its first node is the
\* element, else buildPath: /tag per level, with [index] among the siblings
\* of the same tag only when the index is above 1
RECURSIVE trackerGetXPath(_, _, _)
trackerGetXPath(d, element, top) ==
  IF element = 0 THEN [base |-> "body", steps |-> << >>]
  ELSE
    LET e == d[element]
        idXPath == [base |-> "id", steps |-> << >>]
        index == Cardinality({ i \in DOMAIN d :
                                 d[i].parent = e.parent /\ d[i].tag = e.tag /\ i <= element })
    IN IF top /\ "id" \in e.attrs /\ \A i \in evaluate(d, idXPath) : element <= i
       THEN idXPath
       ELSE [trackerGetXPath(d, e.parent, FALSE) EXCEPT !.steps =
               Append(@, [name |-> e.tag, index |-> IF index > 1 THEN index ELSE 0])]

\* the page gains an element (the mutation the tracker observes): a div or
\* span with a class attribute or an id, placed after the elements so far
LocatorElementAdded ==
  /\ call.pc = "page"
  /\ Len(call.dom) < MaxTree
  /\ \E tag \in {"DIV", "SPAN"}, parent \in 0 .. Len(call.dom),
        look \in {<<"", {}>>, <<"a", {}>>, <<"a b", {}>>, <<"", {"id"}>>} :
       /\ parent # 0 => contains(call.dom, parent, Len(call.dom))
       /\ call' = [call EXCEPT !.dom = Append(@, [tag |-> tag, parent |-> parent,
                                                  cls |-> look[1], attrs |-> look[2],
                                                  text |-> 0, live |-> TRUE])]
  /\ UNCHANGED sessionVars

\* one of the two builders is asked for the XPath of an element of the page;
\* selected is what document.evaluate finds for it on the same page
LocatorGetXPath ==
  /\ call.pc = "page"
  /\ \E builder \in {"findModals", "interactionTracker"}, element \in DOMAIN call.dom :
       LET xpath == IF builder = "findModals" THEN getXPath(call.dom, element)
                    ELSE trackerGetXPath(call.dom, element, TRUE)
       IN call' = [call EXCEPT !.pc = "done", !.builder = builder, !.element = element,
                               !.xpath = xpath, !.selected = evaluate(call.dom, xpath)]
  /\ UNCHANGED sessionVars

InitLocator ==
  InitCall([fn |-> "getXPath", pc |-> "page", dom |-> << >>, builder |-> "none",
            element |-> 0, xpath |-> [base |-> "body", steps |-> << >>], selected |-> {}])

SpecLocator == InitLocator /\ [][LocatorElementAdded \/ LocatorGetXPath]_vars

\* C13: the XPath a locator builder returns for an element selects exactly one
\* node of the page it was built on.
C13_XPathSelectsOneNode ==
  call.fn = "getXPath" /\ call.pc = "done"
    => Cardinality(call.selected) = 1

\* the kinds of failure: no node at all (overlay detector), several nodes
\* (change tracker), one node that is not the element (overlay detector)
C13_SelectsNothing ==
  call.fn = "getXPath" /\ call.pc = "done" /\ call.selected = {}
C13_SelectsSeveral ==
  call.fn = "getXPath" /\ call.pc = "done" /\ Cardinality(call.selected) > 1
C13_SelectsAnother ==
  call.fn = "getXPath" /\ call.pc = "done"
    /\ call.selected # {} /\ call.element \notin call.selected

(***************************************************************************)
(* ModalHandler.js closeModals                                             *)
(***************************************************************************)
MaxModals == 2    \* most overlays in the list closeModals is given
MaxButtons == 2   \* most close buttons findCloseButtons finds

\* the call closeModals(page, modals): entered counts the entries into each
\* strategy, initialModalState and the latest visibility check are kept
closeModals(n) ==
  [fn |-> "closeModals", modals |-> n, pc |-> "start",
   initialModalState |-> << >>, modalState |-> << >>,
   closeButtons |-> 0, closeButton |-> 0,
   entered |-> [st \in {"outsideClick", "escape", "closeButtons", "hide"} |-> 0],
   result |-> "pending"]

AfterStrategy_GoesOn(c, next) ==
  \/ \E state \in [1 .. c.modals -> BOOLEAN] :
       call' = [c EXCEPT !.modalState = state, !.pc = next]
  \/ call' = [c EXCEPT !.pc = next]

\* checkModalVisibility after a strategy: the page answers with any
\* visibility of the overlays, or a page operation of the strategy rejects;
\* a changed visibility returns true, anything else goes on to the strategy next
AfterStrategy(c, next) ==
  \/ \E state \in [1 .. c.modals -> BOOLEAN] :
       call' = IF state # c.initialModalState
               THEN [c EXCEPT !.modalState = state, !.pc = "done", !.result = "true"]
               ELSE [c EXCEPT !.modalState = state, !.pc = next]
  \/ call' = [c EXCEPT !.pc = next]

\* an empty list returns true; else the first visibility check, which is
\* outside every try block
CloseStart ==
  /\ call.pc = "start"
  /\ IF call.modals = 0
     THEN call' = [call EXCEPT !.pc = "done", !.result = "true"]
     ELSE \/ \E state \in [1 .. call.modals -> BOOLEAN] :
               call' = [call EXCEPT !.initialModalState = state, !.modalState = state,
                                    !.pc = "outsideClick"]
          \/ call' = [call EXCEPT !.pc = "done", !.result = "rejected"]
  /\ UNCHANGED sessionVars

\* page.click('html') and then keyboard.press('Escape'), each in its own try
CloseDismiss ==
  /\ call.pc \in {"outsideClick", "escape"}
  /\ AfterStrategy([call EXCEPT !.entered[call.pc] = @ + 1],
                   IF call.pc = "outsideClick" THEN "escape" ELSE "closeButtons")
  /\ UNCHANGED sessionVars

\* findCloseButtons(modals); a rejection skips the buttons
CloseFindButtons ==
  /\ call.pc = "closeButtons"
  /\ \/ \E found \in 0 .. MaxButtons :
          call' = [call EXCEPT !.entered["closeButtons"] = @ + 1, !.closeButtons = found,
                               !.closeButton = 1,
                               !.pc = IF found = 0 THEN "hide" ELSE "closeButton"]
     \/ call' = [call EXCEPT !.entered["closeButtons"] = @ + 1, !.pc = "hide"]
  /\ UNCHANGED sessionVars

\* one turn of the loop over the close buttons: a button that is hidden or
\* disabled is passed over, else it is clicked and the visibility compared
CloseButton ==
  /\ call.pc = "closeButton"
  /\ LET next == IF call.closeButton = call.closeButtons THEN "hide" ELSE "closeButton"
         c == [call EXCEPT !.closeButton = @ + 1]
     IN AfterStrategy(c, next)
  /\ UNCHANGED sessionVars

CloseHide_AlwaysTrue ==
  /\ call.pc = "hide"
  /\ \/ \E state \in [1 .. call.modals -> BOOLEAN] :
          call' = [call EXCEPT !.entered["hide"] = @ + 1, !.modalState = state, !.pc = "done",
                               !.result = "true"]
     \/ call' = [call EXCEPT !.entered["hide"] = @ + 1, !.pc = "done", !.result = "true"]
  /\ UNCHANGED sessionVars

\* display: none on every visible overlay, then the last comparison
CloseHide ==
  /\ call.pc = "hide"
  /\ \/ \E state \in [1 .. call.modals -> BOOLEAN] :
          call' = [call EXCEPT !.entered["hide"] = @ + 1, !.modalState = state, !.pc = "done",
                               !.result = IF state # call.initialModalState
                                          THEN "true" ELSE "false"]
     \/ call' = [call EXCEPT !.entered["hide"] = @ + 1, !.pc = "done", !.result = "false"]
  /\ UNCHANGED sessionVars

InitCloseModals == \E n \in 0 .. MaxModals : InitCall(closeModals(n))

SpecCloseModals ==
  InitCloseModals
    /\ [][CloseStart \/ CloseDismiss \/ CloseFindButtons \/ CloseButton \/ CloseHide]_vars

\* the same with every step of the call taken as long as one is enabled
FairCloseModals ==
  SpecCloseModals
    /\ WF_vars(CloseStart \/ CloseDismiss \/ CloseFindButtons \/ CloseButton \/ CloseHide)

\* C15: closeModals enters each of its four strategies at most once and,
\* when it ends, has returned true or false.
C15_CascadeReturnsBoolean ==
  /\ \A st \in DOMAIN call.entered : call.entered[st] <= 1
  /\ call.pc = "done" => call.result \in {"true", "false"}

\* the part of C15 that holds: the cascade always comes to an end
C15_CascadeEnds == <>(call.pc = "done")

C15_EachStrategyOnce ==
  /\ \A st \in DOMAIN call.entered : call.entered[st] <= 1
  /\ call.pc = "done" => call.result \in {"true", "false", "rejected"}

(***************************************************************************)
(* findInteractiveElements and processInteractiveElementsContent           *)
(***************************************************************************)
MaxCandidates == 2   \* most elements in the list the analysis returns
MaxMatches == 2      \* most page elements one selector matches

\* the discovery and interaction phase: _streamAIAnalysis, then the loop over
\* interactiveElements.elements.  blocked is the page's state (an overlay
\* blocks scrolling); outcome, threwAt and after are history: what became of
\* each candidate, and which overlay calls followed the last attempted
\* interaction
NoCalls == [attempted |-> FALSE, findModals |-> FALSE, found |-> FALSE, closeModals |-> FALSE]

discovery ==
  [fn |-> "discovery", pc |-> "stream", streamingComplete |-> FALSE, sleeps |-> 0,
   elements |-> 0, candidate |-> 1, elementCount |-> 0, elementIndex |-> 0,
   dynamicContentResults |-> << >>, blocked |-> FALSE,
   outcome |-> << >>, threwAt |-> << >>, after |-> NoCalls, result |-> "pending"]

\* `continue` of the loop over a selector's elements; after the last one the
\* loop over the candidates goes on
continueElement(c) ==
  IF c.elementIndex + 1 < c.elementCount
  THEN [c EXCEPT !.elementIndex = @ + 1, !.pc = "element"]
  ELSE [c EXCEPT !.outcome[c.candidate] = "processed", !.candidate = @ + 1,
                 !.pc = IF c.candidate = c.elements THEN "cleanup" ELSE "candidate"]

catchCandidate_Breaks(c) ==
  [c EXCEPT !.outcome[c.candidate] = "threw", !.threwAt[c.candidate] = c.elementIndex,
            !.pc = "cleanup"]

\* catch (error) { console.error(..); continue; } around one candidate
catchCandidate(c) ==
  [c EXCEPT !.outcome[c.candidate] = "threw", !.threwAt[c.candidate] = c.elementIndex,
            !.candidate = @ + 1,
            !.pc = IF c.candidate = c.elements THEN "cleanup" ELSE "candidate"]

\* streamObject and the for await over partialObjectStream: the stream
\* throws (the analysis rejects, or recovers with no elements), or it ends,
\* with onFinish already called or not
StreamAnalysis ==
  /\ call.pc = "stream"
  /\ \/ call' = [call EXCEPT !.pc = "done", !.result = "rejected"]
     \/ call' = [call EXCEPT !.pc = "done", !.result = "array"]
     \/ \E finished \in BOOLEAN :
          call' = [call EXCEPT !.pc = "wait", !.streamingComplete = finished]
  /\ UNCHANGED sessionVars

\* onFinish: the stream signals completion
StreamFinish ==
  /\ call.pc = "wait"
  /\ ~call.streamingComplete
  /\ call' = [call EXCEPT !.streamingComplete = TRUE]
  /\ UNCHANGED sessionVars

\* while (!streamingComplete) sleep 100 ms; then the elements go to
\* processInteractiveElementsContent, which returns [] for an empty list
StreamWait ==
  /\ call.pc = "wait"
  /\ IF ~call.streamingComplete
     THEN call' = [call EXCEPT !.sleeps = 1 - @]
     ELSE \E n \in 0 .. MaxCandidates :
            call' = [call EXCEPT !.elements = n,
                                 !.outcome = [k \in 1 .. n |-> "pending"],
                                 !.threwAt = [k \in 1 .. n |-> 0],
                                 !.pc = IF n = 0 THEN "done" ELSE "candidate",
                                 !.result = IF n = 0 THEN "array" ELSE @]
  /\ UNCHANGED sessionVars

\* locator.count(): zero skips the candidate with a warning
LoopCount ==
  /\ call.pc = "candidate"
  /\ \/ \E elementCount \in 0 .. MaxMatches :
          call' = IF elementCount = 0
                  THEN [call EXCEPT !.outcome[call.candidate] = "zero", !.candidate = @ + 1,
                                    !.elementCount = 0, !.elementIndex = 0,
                                    !.pc = IF call.candidate = call.elements
                                           THEN "cleanup" ELSE "candidate"]
                  ELSE [call EXCEPT !.elementCount = elementCount, !.elementIndex = 0,
                                    !.pc = "element"]
     \/ call' = catchCandidate([call EXCEPT !.elementCount = 0, !.elementIndex = 0])
  /\ UNCHANGED sessionVars

\* isVisible, isEnabled and _setupMutationObserver
LoopElement ==
  /\ call.pc = "element"
  /\ \/ call' = continueElement(call)
     \/ call' = [call EXCEPT !.pc = "interact"]
     \/ call' = catchCandidate(call)
  /\ UNCHANGED sessionVars

\* _performInteraction: it returns false when the interaction fails (a click
\* intercepted by an overlay among the causes); a successful one may open an
\* overlay that blocks scrolling
LoopInteract ==
  /\ call.pc = "interact"
  /\ LET c == [call EXCEPT !.after = [NoCalls EXCEPT !.attempted = TRUE]]
     IN \/ call' = continueElement(c)
        \/ \E opened \in BOOLEAN :
             call' = [c EXCEPT !.blocked = @ \/ opened, !.pc = "dynamic"]
  /\ UNCHANGED sessionVars

LoopDynamic_PushesTwice ==
  /\ call.pc = "dynamic"
  /\ \/ call' = [call EXCEPT !.pc = "overlay"]
     \/ LET item == [candidate |-> call.candidate, elementIndex |-> call.elementIndex]
        IN call' = [call EXCEPT !.pc = "overlay",
                                !.dynamicContentResults = Append(Append(@, item), item)]
     \/ call' = catchCandidate(call)
  /\ UNCHANGED sessionVars

\* _getDynamicContent and the result built from the best change
LoopDynamic ==
  /\ call.pc = "dynamic"
  /\ \/ call' = [call EXCEPT !.pc = "overlay"]
     \/ call' = [call EXCEPT !.pc = "overlay",
                             !.dynamicContentResults =
                               Append(@, [candidate |-> call.candidate,
                                          elementIndex |-> call.elementIndex])]
     \/ call' = catchCandidate(call)
  /\ UNCHANGED sessionVars

\* isScrollingBlocked; when it is not, Escape and a click on html; when it
\* is, findModals and, for a non-empty list, closeModals
LoopOverlay ==
  /\ call.pc = "overlay"
  /\ \/ /\ ~call.blocked
        /\ call' = continueElement(call)
     \/ /\ call.blocked
        /\ \/ call' = continueElement([call EXCEPT !.after.findModals = TRUE])
           \/ \E closed \in BOOLEAN :
                call' = continueElement(
                          [call EXCEPT !.after.findModals = TRUE, !.after.found = TRUE,
                                       !.after.closeModals = TRUE,
                                       !.blocked = ~closed])
           \/ call' = catchCandidate([call EXCEPT !.after.findModals = TRUE])
           \/ call' = catchCandidate([call EXCEPT !.after.findModals = TRUE,
                                                  !.after.found = TRUE,
                                                  !.after.closeModals = TRUE])
     \/ call' = catchCandidate(call)
  /\ UNCHANGED sessionVars

\* cleanup(page) after the loop; when it rejects the outer catch returns []
LoopCleanup ==
  /\ call.pc = "cleanup"
  /\ \/ call' = [call EXCEPT !.pc = "done", !.result = "array"]
     \/ call' = [call EXCEPT !.pc = "done", !.result = "array",
                             !.dynamicContentResults = << >>]
  /\ UNCHANGED sessionVars

InitDiscovery == InitCall(discovery)

SpecDiscovery ==
  InitDiscovery
    /\ [][StreamAnalysis \/ StreamFinish \/ StreamWait \/ LoopCount \/ LoopElement
            \/ LoopInteract \/ LoopDynamic \/ LoopOverlay \/ LoopCleanup]_vars

\* every step of the program is taken as long as it is enabled; onFinish is
\* the stream's step and carries no such promise
FairDiscovery ==
  SpecDiscovery
    /\ WF_vars(StreamAnalysis \/ StreamWait \/ LoopCount \/ LoopElement
                 \/ LoopInteract \/ LoopDynamic \/ LoopOverlay \/ LoopCleanup)

\* the revealed items a candidate has added
ItemsOf(k) ==
  { i \in DOMAIN call.dynamicContentResults : call.dynamicContentResults[i].candidate = k }

\* the loop over the candidates is over
LoopOver == call.fn = "discovery" /\ call.elements > 0 /\ call.pc \in {"cleanup", "done"}

\* C16: a candidate whose selector matches nothing, or whose processing
\* throws, adds no revealed item and does not stop the loop; the call returns
\* an array.
C16_SkippedCandidateAddsNothing ==
  LoopOver =>
    /\ \A k \in 1 .. call.elements :
         /\ call.outcome[k] # "pending"
         /\ call.outcome[k] \in {"zero", "threw"} => ItemsOf(k) = {}
    /\ call.pc = "done" => call.result = "array"

\* C16 as the code has it: a candidate that matches nothing adds no item, a
\* candidate that throws adds none for the elements after the one it threw
\* at (what it added before stays), every candidate is gone through, and the
\* call returns an array.
C16_ThrowKeepsEarlierItems ==
  LoopOver =>
    /\ \A k \in 1 .. call.elements :
         /\ call.outcome[k] # "pending"
         /\ call.outcome[k] = "zero" => ItemsOf(k) = {}
         /\ call.outcome[k] = "threw" =>
              \A i \in ItemsOf(k) :
                call.dynamicContentResults[i].elementIndex <= call.threwAt[k]
    /\ call.pc = "done" => call.result = "array"

C16_Witness ==
  /\ LoopOver /\ call.pc = "done" /\ call.result = "array"
  /\ \E k \in 1 .. call.elements, j \in 1 .. call.elements :
       /\ k < j
       /\ call.outcome[k] = "threw" /\ ItemsOf(k) # {}
       /\ call.outcome[j] = "processed" /\ ItemsOf(j) # {}

\* C17: when the interaction on an element begins and the page's scrolling
\* is blocked after an earlier attempted interaction, findModals has been
\* called since that attempt and, if it found overlays, closeModals too.
C17_OverlayCheckAfterEveryAttempt ==
  call.fn = "discovery" /\ call.pc = "interact" /\ call.after.attempted /\ call.blocked
    => /\ call.after.findModals
       /\ call.after.found => call.after.closeModals

\* C20: the discovery and interaction phase always comes to an end.
C20_DiscoveryEnds == <>(call.pc = "done")

\* the part of C20 that holds: once the analysis has returned, the loops end
C20_LoopsEnd == (call.pc \notin {"stream", "wait"}) ~> (call.pc = "done")

(***************************************************************************)
(* The caller of scrapeWithStreaming: its progress callback and its cancel *)
(***************************************************************************)
\* the caller of one streaming session: it has asked to cancel (the web
\* client's handleCancel aborts its request), its callback has thrown, the
\* promise of scrapeWithStreaming has rejected
caller == [fn |-> "caller", cancelled |-> FALSE, thrown |-> FALSE, rejected |-> FALSE]

\* the error the callback throws: a message with none of the keywords
CallbackError == Err({}, "none", 0)

\* the outer catch of scrapeWithStreaming: return { success: false, markdown:
\* null, html: null, processingTime, error: error.message, enhancedError: null }
outerCatchResult(error) ==
  [ returned |-> TRUE, success |-> FALSE, markdown |-> 0, html |-> 0,
    enhancedError |-> NoError, error |-> error ]

\* the caller asks to cancel while the session runs; scrapeWithStreaming
\* takes no abort signal and the server hands none on
CancelRequested ==
  /\ ~call.cancelled
  /\ \E s \in Sessions : pc[s] \notin {"off", "done"}
  /\ call' = [call EXCEPT !.cancelled = TRUE]
  /\ UNCHANGED sessionVars

\* the callback throws outside the retry loop: in the first logWithStreaming
\* or in the stream_complete event; the outer catch calls logWithStreaming
\* again, and when the callback throws there too the error leaves the function
CallbackThrowsOutside(s) ==
  /\ fn[s] = "scrapeWithStreaming"
  /\ \/ pc[s] = "loop" /\ hist[s].attempts = 0
     \/ pc[s] = "exit"
     \/ pc[s] = "loop" /\ ~loopTest(s)
  /\ \E again \in BOOLEAN :
       /\ call' = [call EXCEPT !.thrown = TRUE, !.rejected = again]
       /\ result' = [result EXCEPT ![s] = IF again THEN @ ELSE outerCatchResult(CallbackError)]
  /\ pc' = [pc EXCEPT ![s] = "done"]
  /\ UNCHANGED <<envMaxRetry, budget, browser, page, browsers, fn, mode, retryCount,
                 success, enhancedError, final, context, local, hist>>

\* the callback throws in a phase event inside the try block of an attempt
\* (before navigateToUrl, the scroll or handleIframes): the catch block of
\* the loop takes it for a failure of the attempt
CallbackThrowsInAttempt(s) ==
  /\ fn[s] = "scrapeWithStreaming"
  /\ pc[s] \in {"navigate", "scroll", "iframes"}
  /\ call' = [call EXCEPT !.thrown = TRUE]
  /\ Catch(s, CallbackError, local[s], hist[s])
  /\ UNCHANGED <<envMaxRetry, budget, browser, page, browsers, fn, mode, success,
                 enhancedError, final, context, result>>

\* one streaming session; at most one operation of a collaborator rejects,
\* and budget = 1 as long as none has
InitCaller ==
  /\ envMaxRetry = 0
  /\ budget = 1
  /\ InitSession({1})
  /\ fn[1] = "scrapeWithStreaming"
  /\ fn[2] = "scrape" /\ mode[2] = "normal"
  /\ call = caller

SpecCaller ==
  InitCaller
    /\ [][Next \/ CancelRequested
               \/ \E s \in Sessions : CallbackThrowsOutside(s) \/ CallbackThrowsInAttempt(s)]_vars

\* C18: a throwing progress callback changes nothing: the session does not
\* reject, it returns what its loop computed, and in normal mode, when no
\* collaborator has rejected, that is success with markdown after one attempt.
C18_ThrowingCallbackChangesNothing ==
  /\ ~call.rejected
  /\ \A s \in Sessions :
       Returned(s) =>
         /\ result[s] = buildResult(s)
         /\ mode[s] = "normal" /\ budget = 1 =>
              result[s].success /\ result[s].markdown # 0 /\ hist[s].attempts = 1

\* the same holds as long as the callback has not thrown
C18_QuietCallback == call.thrown \/ C18_ThrowingCallbackChangesNothing

\* a new phase or a new attempt begins
PhaseBegins(s) ==
  /\ pc'[s] # pc[s]
  /\ pc'[s] \in {"launching", "navigate", "scroll", "iframes", "n_eval", "b_clone", "b_ai",
                  "b_interact", "b_combine", "n_convert", "b_convert"}

\* C19: once the caller has asked to cancel, the session begins no new phase
\* and no new attempt.
C19_NoPhaseAfterCancel ==
  [][call.cancelled => \A s \in Sessions : ~PhaseBegins(s)]_vars

(***************************************************************************)
(* _streamAIAnalysis (catch block) and findInteractiveElements             *)
(***************************************************************************)
MaxText == 4   \* most characters in the text of a NoObjectGeneratedError

\* a text is a sequence of these characters
TextChars == {"Y", "E", "S", "N", "O", "\"", " "}
Texts == UNION { [1 .. n -> TextChars] : n \in 0 .. MaxText }

trim_StartOnly(text) ==
  LET kept == { i \in DOMAIN text : \E j \in 1 .. i : text[j] # " " }
  IN [k \in 1 .. Cardinality(kept) |-> text[Len(text) - Cardinality(kept) + k]]

\* String.prototype.trim: the text without its leading and trailing spaces
trim(text) ==
  LET solid == { i \in DOMAIN text : text[i] # " " }
  IN IF solid = {} THEN << >>
     ELSE LET first == CHOOSE i \in solid : \A j \in solid : i <= j
              last == CHOOSE i \in solid : \A j \in solid : j <= i
          IN SubSeq(text, first, last)

\* replace(/"/g, ''): every double quote removed
removeQuotes(text) ==
  LET NotQuote(c) == c # "\"" IN SelectSeq(text, NotQuote)

\* what _streamAIAnalysis returns or throws.  stream is what the object
\* stream came to: an object (interactionNeeded, number of elements), or an
\* error with its name and, when it has one that is a string, its text
_streamAIAnalysis(stream) ==
  IF stream.kind = "object"
  THEN [kind |-> "object", interactionNeeded |-> stream.interactionNeeded,
        elements |-> stream.elements]
  ELSE LET responseText == removeQuotes(trim(stream.text))
       IN IF /\ stream.name \in {"AI_NoObjectGeneratedError", "NoObjectGeneratedError"}
             /\ stream.hasText
             /\ stream.text # << >>
             /\ responseText \in {<<"Y", "E", "S">>, <<"N", "O">>}
          THEN [kind |-> "object",
                interactionNeeded |-> IF responseText = <<"N", "O">> THEN "NO" ELSE "YES",
                elements |-> 0]
          ELSE [kind |-> "thrown", name |-> stream.name]

\* findInteractiveElements: { elements: [] } when interactionNeeded is NO,
\* else result.object; an error of the analysis passes through
findInteractiveElements(analysis) ==
  IF analysis.kind = "thrown" THEN analysis
  ELSE IF analysis.interactionNeeded = "NO" THEN [kind |-> "object", elements |-> 0]
  ELSE [kind |-> "object", elements |-> analysis.elements]

\* the streams findInteractiveElements may meet
Streams ==
  [kind : {"object"}, interactionNeeded : {"YES", "NO"}, elements : 0 .. MaxElements]
    \cup [kind : {"error"}, name : {"AI_NoObjectGeneratedError", "NoObjectGeneratedError", "Error"},
          hasText : {TRUE}, text : Texts]
    \cup [kind : {"error"}, name : {"AI_NoObjectGeneratedError", "Error"},
          hasText : {FALSE}, text : {<< >>}]

\* await _streamAIAnalysis(...) settles
AnalysisSettles ==
  /\ call.pc = "analysis"
  /\ call' = [call EXCEPT !.analysis = _streamAIAnalysis(call.stream),
                          !.pc = "find"]
  /\ UNCHANGED sessionVars

\* the rest of findInteractiveElements
FindReturns ==
  /\ call.pc = "find"
  /\ call' = [call EXCEPT !.result = findInteractiveElements(call.analysis), !.pc = "done"]
  /\ UNCHANGED sessionVars

InitAnalysis ==
  \E stream \in Streams :
    InitCall([fn |-> "findInteractiveElements", pc |-> "analysis", stream |-> stream,
              analysis |-> [kind |-> "pending"], result |-> [kind |-> "pending"]])

SpecAnalysis == InitAnalysis /\ [][AnalysisSettles \/ FindReturns]_vars

\* the text, without the spaces at its ends and without its double quotes,
\* reads as the word
ReadsAs(text, word) ==
  \E i \in DOMAIN text, j \in DOMAIN text :
    /\ i <= j
    /\ text[i] # " " /\ text[j] # " "
    /\ \A k \in DOMAIN text : k < i \/ k > j => text[k] = " "
    /\ LET inner == SubSeq(text, i, j)
           letters == { k \in DOMAIN inner : inner[k] # "\"" }
       IN /\ Cardinality(letters) = Len(word)
          /\ \A k \in letters :
               inner[k] = word[Cardinality({ m \in letters : m <= k })]

\* C21: a NoObjectGeneratedError whose text reads YES or NO gives an object
\* with that interactionNeeded and no elements, any other error is thrown
\* again, and findInteractiveElements returns no elements when
\* interactionNeeded is NO.
C21_PlainTextRecovered ==
  call.fn = "findInteractiveElements" /\ call.pc \in {"find", "done"} =>
    /\ call.stream.kind = "error" =>
         LET named == call.stream.name \in {"AI_NoObjectGeneratedError", "NoObjectGeneratedError"}
             yes == named /\ call.stream.hasText /\ ReadsAs(call.stream.text, <<"Y", "E", "S">>)
             no == named /\ call.stream.hasText /\ ReadsAs(call.stream.text, <<"N", "O">>)
         IN /\ yes => call.analysis = [kind |-> "object", interactionNeeded |-> "YES",
                                        elements |-> 0]
            /\ no => call.analysis = [kind |-> "object", interactionNeeded |-> "NO",
                                       elements |-> 0]
            /\ ~yes /\ ~no => call.analysis = [kind |-> "thrown", name |-> call.stream.name]
    /\ call.pc = "done" /\ call.analysis.kind = "object"
         /\ call.analysis.interactionNeeded = "NO"
         => call.result = [kind |-> "object", elements |-> 0]
    /\ call.pc = "done" /\ call.analysis.kind = "thrown" => call.result.kind = "thrown"

C21_Witness ==
  /\ call.fn = "findInteractiveElements" /\ call.pc = "done"
  /\ call.stream.kind = "error"
  /\ call.stream.text = <<" ", "\"", "N", "O">>
  /\ call.result = [kind |-> "object", elements |-> 0]

(***************************************************************************)
(* The order of the phases of an attempt                                   *)
(***************************************************************************)
\* the place of a program position in the order of the phases: browser init
\* 1, navigate 2, scroll 3, iframes 4, extract or discover 5, interaction
\* loop 6, combine 7, convert (with the closing of the browser before it) 8;
\* 0 outside the phases of an attempt
PhaseRank(p) ==
  CASE p \in {"launching", "newPage"} -> 1
    [] p = "navigate" -> 2
    [] p = "scroll" -> 3
    [] p = "iframes" -> 4
    [] p \in {"n_eval", "n_content", "b_clone", "b_ai"} -> 5
    [] p = "b_interact" -> 6
    [] p = "b_combine" -> 7
    [] p \in {"n_closing", "n_convert", "b_closing", "b_convert"} -> 8
    [] OTHER -> 0

\* C22: the phases of an attempt begin in their order, each after the one
\* before it (a beast attempt may pass over the interaction loop and, on
\* its way to the conversion, nothing else), a normal-mode session never
\* reaches the discovery, the interaction loop or the combination, and a
\* session that has returned takes no further step.
C22_PhaseOrder ==
  [][\A s \in Sessions :
       LET a == PhaseRank(pc[s])
           b == PhaseRank(pc'[s])
       IN /\ pc[s] = "done" => pc'[s] = "done"
          /\ mode[s] = "normal" =>
               pc'[s] \notin {"b_clone", "b_ai", "b_interact", "b_combine", "b_closing",
                              "b_convert"}
          /\ pc'[s] # pc[s] /\ b # 0 =>
               /\ b = 1 => pc[s] \in {"loop", "launching"}
               /\ b \in 2 .. 5 => a \in {b - 1, b}
               /\ b \in {6, 7} => a \in 5 .. b
               /\ b = 8 => a \in {5, 7, 8}]_vars

C22_Witness ==
  \E s \in Sessions :
    /\ Returned(s) /\ mode[s] = "beast" /\ result[s].success
    /\ hist[s].interactions > 0 /\ hist[s].combined

\* C23: the delay waited after k failed attempts, in units of RETRY_DELAY, is
\* 2^(k-1) when the last error is classified network or rate_limit and 1 for
\* every other retryable classification, and none is waited after the last
\* attempt.
C23_RetryDelay ==
  \A s \in Sessions :
    pc[s] = "retryWait" =>
      LET k == hist[s].failed
          category == handleError(hist[s].lastError).category
      IN /\ k < MAX_RETRY_COUNT
         /\ category \in {"network", "rate_limit"} => hist[s].lastDelay = 2 ^ (k - 1)
         /\ category \in {"timeout", "browser", "unknown"} => hist[s].lastDelay = 1

\* the part of C23 that holds: the delays of errors not classified rate_limit
C23_DelayButRateLimit ==
  \A s \in Sessions :
    pc[s] = "retryWait" /\ handleError(hist[s].lastError).category # "rate_limit" =>
      /\ hist[s].failed < MAX_RETRY_COUNT
      /\ hist[s].lastDelay =
           IF handleError(hist[s].lastError).category = "network"
           THEN 2 ^ (hist[s].failed - 1) ELSE 1

(***************************************************************************)
(* window.interactionTracker, _getDynamicContent and the ranking           *)
(***************************************************************************)
MaxChanges == 2   \* most changes the tracker records between two attaches
MaxAttach == 2    \* most calls of _setupMutationObserver

\* the tracker in the page and its reader.  A change is [type, text (the
\* length of the trimmed textContent of its node), xpath (getXPath gave
\* one), attach (the attach it was observed under), id (its place in the
\* buffer)]; lastRead, dynamicData and bestContent are what the latest
\* _getDynamicContent saw in the buffer, what it returned, and the change
\* the ranking kept (0: none); observed counts the changes recorded so far
interactionTracker ==
  [fn |-> "interactionTracker", pc |-> "idle", attach |-> 0, changes |-> << >>,
   reads |-> 0, lastRead |-> << >>, dynamicData |-> << >>, bestContent |-> 0,
   observed |-> 0]

TrackerSetup_KeepsChanges ==
  /\ call.pc \in {"idle", "attached", "read"}
  /\ call.attach < MaxAttach
  /\ call' = [call EXCEPT !.pc = "attached", !.attach = @ + 1, !.reads = 0,
                          !.lastRead = << >>, !.dynamicData = << >>, !.bestContent = 0]
  /\ UNCHANGED sessionVars

\* _setupMutationObserver: the old tracker is cleaned up, a new one is made
\* and init() empties the buffer and starts a new observer
TrackerSetup ==
  /\ call.pc \in {"idle", "attached", "read"}
  /\ call.attach < MaxAttach
  /\ call' = [call EXCEPT !.pc = "attached", !.attach = @ + 1, !.changes = << >>,
                          !.reads = 0, !.lastRead = << >>, !.dynamicData = << >>,
                          !.bestContent = 0]
  /\ UNCHANGED sessionVars

\* the changes a mutation may be recorded as: type, length of the text,
\* whether getXPath gave a path (it gives null for a node no longer attached)
ObservedChanges ==
  { <<"elementAdded", 5, TRUE>>, <<"elementAdded", 6, TRUE>>, <<"elementAdded", 9, TRUE>>,
    <<"elementAdded", 9, FALSE>>, <<"newlyVisibleElement", 6, TRUE>>,
    <<"newlyVisibleElement", 9, TRUE>> }

\* the MutationObserver callback: an element is added, or an attribute
\* changes on an element that is visible
TrackerMutation ==
  /\ call.pc \in {"attached", "read"}
  /\ Len(call.changes) < MaxChanges
  /\ \E change \in ObservedChanges :
       call' = [call EXCEPT !.changes =
                  Append(@, [type |-> change[1], text |-> change[2], xpath |-> change[3],
                             attach |-> call.attach, id |-> Len(call.changes) + 1]),
                            !.observed = @ + 1]
  /\ UNCHANGED sessionVars

getDynamicContent_Inclusive(changes) ==
  LET Meaningful(change) == change.text >= 5 IN SelectSeq(changes, Meaningful)

\* _getDynamicContent inside the page: getChanges() copies the buffer, the
\* filter keeps the changes whose trimmed text is longer than 5
getDynamicContent(changes) ==
  LET Meaningful(change) == change.text > 5 IN SelectSeq(changes, Meaningful)

\* what page.evaluate hands over: the value is serialized, and a DOM node
\* arrives as a placeholder without textContent
evaluateResult(dynamicData) ==
  [i \in DOMAIN dynamicData |-> [dynamicData[i] EXCEPT !.text = 0]]

\* typeWeight of the ranking
typeWeight(type) ==
  CASE type = "elementAdded" -> 5
    [] type = "newlyVisibleElement" -> 3
    [] type = "attributeChanged" -> 2
    [] OTHER -> 1

\* prioritizedContent[0]: the filter item.node && (item.node.textContent ||
\* item.xpath) && known type, then the stable sort by type weight and by the
\* length of item.node.textContent, both descending; 0 when nothing is left
bestContent(dynamicData) ==
  LET Kept(item) == item.text > 0 \/ item.xpath
      items == SelectSeq(dynamicData, Kept)
      Before(i, j) ==
        \/ typeWeight(items[i].type) > typeWeight(items[j].type)
        \/ /\ typeWeight(items[i].type) = typeWeight(items[j].type)
           /\ \/ items[i].text > items[j].text
              \/ items[i].text = items[j].text /\ i < j
  IN IF items = << >> THEN 0
     ELSE items[CHOOSE i \in DOMAIN items : \A j \in DOMAIN items \ {i} : Before(i, j)].id

\* const dynamicData = await _getDynamicContent(page) and the ranking
TrackerRead ==
  /\ call.pc \in {"attached", "read"}
  /\ call.reads < 2
  /\ LET dynamicData == getDynamicContent(call.changes)
     IN call' = [call EXCEPT !.pc = "read", !.reads = @ + 1,
                             !.lastRead = call.changes,
                             !.dynamicData = dynamicData,
                             !.bestContent = bestContent(evaluateResult(dynamicData))]
  /\ UNCHANGED sessionVars

InitTracker == InitCall(interactionTracker)

SpecTracker == InitTracker /\ [][TrackerSetup \/ TrackerMutation \/ TrackerRead]_vars

ReadStep == call.fn = "interactionTracker" /\ call'.reads = call.reads + 1

\* C25: reading the changes returns all changes observed since the attach
\* or the last read and leaves the buffer empty.
C25_ReadReturnsAllAndClears ==
  [][ReadStep => call'.dynamicData = call.changes /\ call'.changes = << >>]_vars

\* C25 as the code has it: reading returns, in their order, the changes
\* observed since the attach whose text is longer than 5, and leaves the
\* buffer as it was, so that a second read returns the same list.
C25_ReadFiltersAndKeeps ==
  [][ReadStep =>
       /\ call'.changes = call.changes
       /\ \A i \in DOMAIN call.changes :
            call.changes[i].text > 5 <=>
              \E j \in DOMAIN call'.dynamicData : call'.dynamicData[j] = call.changes[i]
       /\ \A j \in DOMAIN call'.dynamicData :
            /\ call'.dynamicData[j] \in { call.changes[i] : i \in DOMAIN call.changes }
            /\ \A k \in DOMAIN call'.dynamicData :
                 j < k => call'.dynamicData[j].id < call'.dynamicData[k].id]_vars

C25_Witness ==
  /\ call.fn = "interactionTracker" /\ call.pc = "read" /\ call.reads = 2
  /\ call.lastRead = call.changes
  /\ call.dynamicData # << >>
  /\ Len(call.dynamicData) < Len(call.changes)

\* C26: the change kept is, among the changes read, one of the highest type
\* rank and, among those, of the greatest text length.
C26_TopRankedKept ==
  call.fn = "interactionTracker" /\ call.pc = "read" /\ call.dynamicData # << >> =>
    \E i \in DOMAIN call.dynamicData :
      /\ call.dynamicData[i].id = call.bestContent
      /\ \A j \in DOMAIN call.dynamicData :
           \/ typeWeight(call.dynamicData[i].type) > typeWeight(call.dynamicData[j].type)
           \/ /\ typeWeight(call.dynamicData[i].type) = typeWeight(call.dynamicData[j].type)
              /\ call.dynamicData[i].text >= call.dynamicData[j].text

\* the part of C26 that holds when every change has an XPath: the change kept
\* is of the highest type rank
C26_TopTypeKept ==
  /\ call.fn = "interactionTracker" /\ call.pc = "read" /\ call.dynamicData # << >>
  /\ \A i \in DOMAIN call.dynamicData : call.dynamicData[i].xpath
  => \E i \in DOMAIN call.dynamicData :
       /\ call.dynamicData[i].id = call.bestContent
       /\ \A j \in DOMAIN call.dynamicData :
            typeWeight(call.dynamicData[i].type) >= typeWeight(call.dynamicData[j].type)

\* C27: the list returned holds at most one revealed item per candidate,
\* in the order of the candidates, whatever the number of page elements a
\* candidate's selector matches.
C27_OneItemPerCandidate ==
  call.fn = "discovery" =>
    /\ \A k \in 1 .. call.elements : Cardinality(ItemsOf(k)) <= 1
    /\ \A i, j \in DOMAIN call.dynamicContentResults :
         i < j => call.dynamicContentResults[i].candidate
                    <= call.dynamicContentResults[j].candidate

\* C27 as the code has it: at most one revealed item per page element a
\* candidate's selector matches, in the order of the candidates and, within
\* a candidate, of the matched elements.
C27_OneItemPerMatchedElement ==
  call.fn = "discovery" =>
    \A i, j \in DOMAIN call.dynamicContentResults :
      i < j =>
        LET a == call.dynamicContentResults[i]
            b == call.dynamicContentResults[j]
        IN \/ a.candidate < b.candidate
           \/ a.candidate = b.candidate /\ a.elementIndex < b.elementIndex

C27_Witness ==
  /\ LoopOver /\ call.pc = "done" /\ call.result = "array"
  /\ \E k \in 1 .. call.elements, j \in 1 .. call.elements :
       /\ k < j
       /\ Cardinality(ItemsOf(k)) = 2
       /\ ItemsOf(j) # {}

\* the strategies of closeModals in their order, and the place of a position
\* of the call in that order
StrategyRank(at) ==
  CASE at = "outsideClick" -> 1
    [] at = "escape" -> 2
    [] at \in {"closeButtons", "closeButton"} -> 3
    [] at = "hide" -> 4
    [] OTHER -> 0

\* C28: closeModals goes through outside click, Escape, close controls and
\* force-hide in that order; a strategy is attempted only while every
\* visibility snapshot taken so far equals the initial one, and the call
\* returns true right after the first snapshot that differs from it.
C28_StrategiesInOrder ==
  call.fn = "closeModals" =>
    /\ call.entered["escape"] > 0 => call.entered["outsideClick"] > 0
    /\ call.entered["closeButtons"] > 0 => call.entered["escape"] > 0
    /\ call.entered["hide"] > 0 => call.entered["closeButtons"] > 0
    /\ StrategyRank(call.pc) > 0 =>
         /\ call.modalState = call.initialModalState
         /\ call.entered["outsideClick"] = (IF StrategyRank(call.pc) > 1 THEN 1 ELSE 0)
         /\ call.entered["escape"] = (IF StrategyRank(call.pc) > 2 THEN 1 ELSE 0)
         /\ call.entered["closeButtons"] = (IF StrategyRank(call.pc) > 3 \/ call.pc = "closeButton"
                                            THEN 1 ELSE 0)
         /\ call.entered["hide"] = 0
    /\ call.modalState # call.initialModalState => call.pc = "done" /\ call.result = "true"
    /\ call.result = "true" /\ call.modals > 0 => call.modalState # call.initialModalState

C28_Witness ==
  /\ call.fn = "closeModals" /\ call.pc = "done" /\ call.result = "true"
  /\ call.modals = 2
  /\ call.modalState # call.initialModalState
  /\ call.entered["outsideClick"] = 1 /\ call.entered["escape"] = 1
  /\ call.entered["closeButtons"] = 0 /\ call.entered["hide"] = 0

\* closeModals has ended after its force-hide step
HideDone == call.fn = "closeModals" /\ call.pc = "done" /\ call.entered["hide"] > 0

\* C29: the force-hide step never fails: a call with a non-empty overlay
\* list whose first three strategies changed no overlay's visibility
\* returns true.
C29_ForceHideReturnsTrue ==
  HideDone /\ call.modals > 0 => call.result = "true"

\* C29 as the code has it: after the force-hide step the call returns true
\* when the visibility snapshot differs from the initial one and false when
\* it does not, or when the step threw.
C29_ForceHideReturnsWhetherChanged ==
  HideDone /\ call.modals > 0 =>
    /\ call.result \in {"true", "false"}
    /\ call.result = "true" <=> call.modalState # call.initialModalState

C29_Witness ==
  /\ HideDone /\ call.modals = 2 /\ call.result = "false"
  /\ \E i \in 1 .. call.modals : call.initialModalState[i] /\ call.modalState[i]

----------------------------------------------------------------------------
\* findModals (ModalHandler.js): the classification of one candidate element

MIN_SIZE_PX == 50
\* MIN_VIEWPORT_AREA_PERCENTAGE = 0.02, in hundredths
MIN_VIEWPORT_AREA_PERCENTAGE == 2

\* the elements document.querySelectorAll(candidateSelector) can give, each
\* with its computed style and bounding rectangle (top is 0, so bottom is the
\* height; right is left + width)
candidateElements ==
  [tagName : {"dialog", "div"}, open : BOOLEAN,
   display : {"block", "none"}, visibility : {"visible", "hidden"}, opacity : {0, 1},
   position : {"static", "fixed", "absolute"}, zIndex : {"auto", "0", "1", "2"},
   left : {0, 2000}, width : {0, 49, 50, 400}, height : {49, 50, 400}]

\* the viewports of the page
windows ==
  { [innerWidth |-> 1000, innerHeight |-> 1000], [innerWidth |-> 800, innerHeight |-> 600] }

\* parseInt(rawZIndex, 10) of a computed z-index
parseInt(rawZIndex) ==
  CASE rawZIndex = "0" -> [isNaN |-> FALSE, zIndex |-> 0]
    [] rawZIndex = "1" -> [isNaN |-> FALSE, zIndex |-> 1]
    [] rawZIndex = "2" -> [isNaN |-> FALSE, zIndex |-> 2]
    [] OTHER -> [isNaN |-> TRUE, zIndex |-> 0]

isVisibleOnScreen(el, window) ==
  /\ el.display # "none"
  /\ el.visibility # "hidden"
  /\ el.opacity > 0
  /\ el.width > 0
  /\ el.height > 0
  /\ 0 < window.innerHeight       \* rect.top < window.innerHeight
  /\ el.height > 0                \* rect.bottom > 0
  /\ el.left < window.innerWidth
  /\ el.left + el.width > 0       \* rect.right > 0

isLargeEnough(el, window) ==
  LET elementArea == el.width * el.height
      viewportArea == window.innerWidth * window.innerHeight
      meetsMinimumSize == el.width >= MIN_SIZE_PX /\ el.height >= MIN_SIZE_PX
  IN elementArea * 100 >= viewportArea * MIN_VIEWPORT_AREA_PERCENTAGE /\ meetsMinimumSize

\* the body of the reduce: TRUE when the element is pushed. A comparison
\* with NaN is false, so `zIndex <= 1` does not turn a NaN away.
isModal(el, window) ==
  IF el.tagName = "dialog"
  THEN el.open /\ isVisibleOnScreen(el, window) /\ isLargeEnough(el, window)
  ELSE LET zIndex == parseInt(el.zIndex)
           turnedAway == \/ ~ zIndex.isNaN /\ zIndex.zIndex <= 1
                         \/ el.position # "fixed" /\ el.position # "absolute"
       IN ~ turnedAway /\ isVisibleOnScreen(el, window) /\ isLargeEnough(el, window)

\* findModals(page) on a page with one candidate element
FindModals ==
  /\ call.pc = "start"
  /\ call' = [call EXCEPT !.pc = "done",
                          !.finalElements = IF isModal(call.el, call.window)
                                            THEN << call.el >> ELSE << >>]
  /\ UNCHANGED sessionVars

InitFindModals ==
  \E el \in candidateElements, window \in windows :
    InitCall([fn |-> "findModals", pc |-> "start", el |-> el, window |-> window,
              finalElements |-> << >>])

SpecFindModals == InitFindModals /\ [][FindModals]_vars

\* C30: findModals reports a candidate as an overlay exactly when it is
\* visible on screen, at least 50px wide and high, covers at least 2% of the
\* viewport, and is either an open dialog or a non-dialog with position
\* fixed or absolute and a z-index that is a number greater than 1.
C30_OverlayIff ==
  call.fn = "findModals" /\ call.pc = "done" =>
    LET el == call.el
        window == call.window
        visible == /\ el.display = "block" /\ el.visibility = "visible" /\ el.opacity > 0
                   /\ el.width > 0 /\ el.left < window.innerWidth
        large == /\ el.width >= 50 /\ el.height >= 50
                 /\ 50 * el.width * el.height >= window.innerWidth * window.innerHeight
        kind == \/ el.tagName = "dialog" /\ el.open
                \/ /\ el.tagName # "dialog"
                   /\ el.position \in {"fixed", "absolute"}
                   /\ el.zIndex = "2"
    IN call.finalElements # << >> <=> visible /\ large /\ kind

\* the same but for a z-index that is not a number, which is let through
C30_OverlayIffButNaN ==
  call.fn = "findModals" /\ call.pc = "done" /\ call.el.zIndex # "auto" =>
    C30_OverlayIff

----------------------------------------------------------------------------
\* the revealed items as processInteractiveElementsContent builds them: with
\* revealed html and a boundingRect
BuiltItems == { item \in RevealedItems : item.revealedHTML # "" /\ item.boundingRect }

\* the similarity of element i of d to the item's element: 3 for the same
\* non-empty text, 1 for the shared class
Similarity(d, i, item) ==
  (IF textContent(d, i, 1) = revealedElement(item, 0).text /\ textContent(d, i, 1) > 0
   THEN 3 ELSE 0)
  + (IF d[i].cls = revealedElement(item, 0).cls /\ d[i].cls # "" THEN 1 ELSE 0)

\* the elements the third strategy may choose for the item
Similar(d, item) ==
  { i \in DOMAIN d :
      /\ d[i].live
      /\ d[i].tag = item.revealedHTML
      /\ "data-dynamic-content" \notin d[i].attrs
      /\ Similarity(d, i, item) > 0 }

\* path names a node of d
Resolves(d, path) == path \in DOMAIN d /\ d[path].live

\* the document of the page while combineContent merges: before the loop and
\* after it
Merging ==
  call.fn = "combineContent" /\ call.pc \in {"merge", "sanitize"} /\ call.raised = "none"

HasChild(d, t) == \E n \in DOMAIN d : d[n].live /\ d[n].parent = t

Inserted(d) == { n \in DOMAIN d : d[n].live /\ d[n].text > 0 }

OriginAttributes == {"data-dynamic-content", "data-interaction-type", "data-selector"}

\* C33: in the document combineContent returns, every node inserted from a
\* revealed item carries the three origin attributes; the sanitation after
\* the merge leaves them.
C33_OriginAttributesKept ==
  call.fn = "combineContent" /\ call.pc = "done" /\ call.raised = "none" =>
    \A n \in Inserted(call.result.dom) : OriginAttributes \subseteq call.result.dom[n].attrs

\* the same for the combineContent of src/core alone, and for the document
\* before the sanitation in both
C33_KeptBySrcCore ==
  /\ (call.fn = "combineContent" /\ call.pc = "done" /\ call.raised = "none"
        /\ call.variant = "src")
       => \A n \in Inserted(call.result.dom) : OriginAttributes \subseteq call.result.dom[n].attrs
  /\ Merging /\ call.pc = "sanitize" =>
       \A n \in Inserted(call.dom) : OriginAttributes \subseteq call.dom[n].attrs

\* C34: after the sanitation the document holds no script or style element;
\* an element that is a table or in one, an iframe, or a code or pre element
\* or in one keeps all its attributes; every other element keeps its class,
\* id, data-* and aria-* attributes and loses the others.
C34_SanitationKeeps ==
  call.fn = "combineContent" /\ call.pc = "sanitize" =>
    LET d == call.dom
        after == Sanitize(d, call.variant)
        exempt(i) == d[i].tag = "IFRAME" \/ closest(d, i, {"TABLE", "CODE", "PRE"})
    IN \A i \in DOMAIN d :
         after[i].live =>
           /\ after[i].tag \notin {"SCRIPT", "STYLE"}
           /\ IF exempt(i) THEN after[i] = d[i]
              ELSE after[i] = [d[i] EXCEPT !.attrs = @ \cap KeptAttributes]

\* the parts of C34 that hold in both versions: no script or style element
\* is left, and a table, an iframe, a code or pre element and everything in
\* a table keep their attributes
C34_NoScriptTablesKept ==
  call.fn = "combineContent" /\ call.pc = "sanitize" =>
    LET d == call.dom
        after == Sanitize(d, call.variant)
    IN \A i \in DOMAIN d :
         after[i].live =>
           /\ after[i].tag \notin {"SCRIPT", "STYLE"}
           /\ d[i].tag \in {"IFRAME", "CODE", "PRE"} \/ closest(d, i, {"TABLE"})
                => after[i] = d[i]

----------------------------------------------------------------------------
\* PageScroller.js: infiniteScrollUntilNoMoreNewNetworkRequest

MaxScroll == 3   \* greatest maxScrollAttempts of the options (10 by default)
MaxStable == 2   \* greatest stableChecks of the options (2 by default)

\* what getContentHash can answer
Hashes == {"a", "b", "c"}

\* the call with its options and locals; hasNewContent and late tell what
\* the latest iteration detected, left how the loop was left
PageScroller(maxScrollAttempts, stableChecks) ==
  [fn |-> "infiniteScroll", pc |-> "start",
   maxScrollAttempts |-> maxScrollAttempts, stableChecks |-> stableChecks,
   scrollAttempts |-> 0, consecutiveNoChangeCount |-> 0, lastContentHash |-> "",
   hasNewContent |-> FALSE, late |-> FALSE, left |-> "no", result |-> "pending"]

\* the initial getContentHash
ScrollStart ==
  /\ call.pc = "start"
  /\ \E hash \in Hashes :
       call' = [call EXCEPT !.lastContentHash = hash,
                            !.pc = IF call.scrollAttempts < call.maxScrollAttempts
                                   THEN "while" ELSE "end"]
  /\ UNCHANGED sessionVars

ScrollAttempt_NoReset ==
  /\ call.pc = "while"
  /\ LET c == [call EXCEPT !.scrollAttempts = @ + 1, !.hasNewContent = FALSE, !.late = FALSE]
         again(n) == [n EXCEPT !.pc = IF n.scrollAttempts < n.maxScrollAttempts
                                       THEN "while" ELSE "end",
                               !.left = IF n.scrollAttempts < n.maxScrollAttempts
                                         THEN "no" ELSE "limit"]
         check(n) == IF n.consecutiveNoChangeCount >= n.stableChecks
                     THEN [n EXCEPT !.pc = "end", !.left = "stable"]
                     ELSE again(n)
     IN \/ call' = [c EXCEPT !.pc = "done", !.left = "threw", !.result = "false"]
        \/ \E hash \in Hashes \ {c.lastContentHash} :
             call' = again([c EXCEPT !.hasNewContent = TRUE, !.lastContentHash = hash])
        \/ \E atBottom \in BOOLEAN :
             LET n == [c EXCEPT !.consecutiveNoChangeCount = @ + 1]
             IN IF ~atBottom THEN call' = check(n)
                ELSE \/ call' = check([n EXCEPT !.consecutiveNoChangeCount = @ + 1])
                     \/ \E hash \in Hashes \ {c.lastContentHash} :
                          call' = again([n EXCEPT !.consecutiveNoChangeCount = 0,
                                                  !.lastContentHash = hash, !.late = TRUE])
  /\ UNCHANGED sessionVars

\* one turn of the while loop: the scroll, the waits and the comparison of
\* the content; with no new content the check of the bottom and, there, the
\* second comparison, whose `continue` goes back to the loop test; an
\* exception in any of the page operations outside the helpers' own try
\* blocks leaves through the outer catch
ScrollAttempt ==
  /\ call.pc = "while"
  /\ LET c == [call EXCEPT !.scrollAttempts = @ + 1, !.hasNewContent = FALSE, !.late = FALSE]
         again(n) == [n EXCEPT !.pc = IF n.scrollAttempts < n.maxScrollAttempts
                                       THEN "while" ELSE "end",
                               !.left = IF n.scrollAttempts < n.maxScrollAttempts
                                         THEN "no" ELSE "limit"]
         check(n) == IF n.consecutiveNoChangeCount >= n.stableChecks
                     THEN [n EXCEPT !.pc = "end", !.left = "stable"]
                     ELSE again(n)
     IN \/ call' = [c EXCEPT !.pc = "done", !.left = "threw", !.result = "false"]
        \/ \E hash \in Hashes \ {c.lastContentHash} :
             call' = again([c EXCEPT !.hasNewContent = TRUE, !.consecutiveNoChangeCount = 0,
                                     !.lastContentHash = hash])
        \/ \E atBottom \in BOOLEAN :
             LET n == [c EXCEPT !.consecutiveNoChangeCount = @ + 1]
             IN IF ~atBottom THEN call' = check(n)
                ELSE \/ call' = check([n EXCEPT !.consecutiveNoChangeCount = @ + 1])
                     \/ \E hash \in Hashes \ {c.lastContentHash} :
                          call' = again([n EXCEPT !.consecutiveNoChangeCount = 0,
                                                  !.lastContentHash = hash, !.late = TRUE])
  /\ UNCHANGED sessionVars

\* the final press of End in its own try, and return true
ScrollReturn ==
  /\ call.pc = "end"
  /\ call' = [call EXCEPT !.pc = "done", !.result = "true"]
  /\ UNCHANGED sessionVars

InitScroll ==
  \E maxScrollAttempts \in 1 .. MaxScroll, stableChecks \in 1 .. MaxStable :
    InitCall(PageScroller(maxScrollAttempts, stableChecks))

SpecScroll == InitScroll /\ [][ScrollStart \/ ScrollAttempt \/ ScrollReturn]_vars

\* the same with every step of the call taken as long as one is enabled
FairScroll == SpecScroll /\ WF_vars(ScrollStart \/ ScrollAttempt \/ ScrollReturn)

\* what C35 says of every state of the call
ScrollBounded ==
  /\ call.scrollAttempts <= call.maxScrollAttempts
  /\ call.left = "stable" => call.consecutiveNoChangeCount >= call.stableChecks
  /\ call.left = "limit" => call.scrollAttempts = call.maxScrollAttempts
  /\ call.pc = "end" => call.left \in {"stable", "limit"}
  /\ call.hasNewContent \/ call.late => call.consecutiveNoChangeCount = 0
  /\ call.pc = "done" =>
       /\ call.result \in {"true", "false"}
       /\ call.result = "false" <=> call.left = "threw"
  /\ call.pc # "done" => call.result = "pending"

\* C35: the scroll loop ends after at most maxScrollAttempts turns, also
\* when late content is detected in every turn; it is left earlier only with
\* consecutiveNoChangeCount at stableChecks; a turn that detects new content
\* sets that counter to 0; the call returns true, or false when an exception
\* left the loop, and never throws.
C35_ScrollEnds == [](call.fn = "infiniteScroll" /\ ScrollBounded) /\ <>(call.pc = "done")

\* late content in every turn up to the limit, and the call returns true
C35_Witness ==
  /\ call.fn = "infiniteScroll" /\ call.pc = "done" /\ call.result = "true"
  /\ call.maxScrollAttempts = MaxScroll /\ call.scrollAttempts = MaxScroll
  /\ call.late /\ call.left = "limit"

----------------------------------------------------------------------------
\* _performInteraction (README.md)

\* the interaction types the analysis may name (any string)
InteractionTypes == {"click", "hover", "focus", "scroll", "Click", "HOVER", "tap", ""}

\* String.prototype.toLowerCase on these
toLowerCase(str) ==
  CASE str = "Click" -> "click"
    [] str = "HOVER" -> "hover"
    [] OTHER -> str

\* the messages a locator operation rejects with, as the catch block tells
\* them apart
ErrorMessages ==
  {"element is not enabled", "element is not visible", "timeout", "not attached",
   "intercepted", "other"}

actionsOf_CaseSensitive(interactionType) ==
  CASE interactionType = "click" -> << "scrollIntoViewIfNeeded", "click" >>
    [] interactionType = "hover" -> << "scrollIntoViewIfNeeded", "hover" >>
    [] interactionType = "focus" -> << "scrollIntoViewIfNeeded", "focus" >>
    [] interactionType = "scroll" -> << "scrollIntoViewIfNeeded" >>
    [] OTHER -> << "scrollIntoViewIfNeeded", "click" >>

\* the switch: the locator operations of an interaction type, in order
actionsOf(interactionType) ==
  CASE toLowerCase(interactionType) = "click" -> << "scrollIntoViewIfNeeded", "click" >>
    [] toLowerCase(interactionType) = "hover" -> << "scrollIntoViewIfNeeded", "hover" >>
    [] toLowerCase(interactionType) = "focus" -> << "scrollIntoViewIfNeeded", "focus" >>
    [] toLowerCase(interactionType) = "scroll" -> << "scrollIntoViewIfNeeded" >>
    [] OTHER -> << "scrollIntoViewIfNeeded", "click" >>

\* the call: isVisible and isEnabled are "true", "false" or, before the
\* check, "unknown"; ops are the locator operations that completed, error
\* the message caught ("" when none), settled whether the 1000 ms wait elapsed
performInteraction(interactionType) ==
  [fn |-> "_performInteraction", interactionType |-> interactionType, pc |-> "start",
   isVisible |-> "unknown", isEnabled |-> "unknown", ops |-> << >>, error |-> "",
   settled |-> FALSE, result |-> "pending"]

\* isVisible and isEnabled, and the two early returns
InteractCheck ==
  /\ call.pc = "start"
  /\ \/ \E isVisible \in BOOLEAN, isEnabled \in BOOLEAN :
          call' = [call EXCEPT !.isVisible = IF isVisible THEN "true" ELSE "false",
                               !.isEnabled = IF isEnabled THEN "true" ELSE "false",
                               !.pc = IF isVisible /\ isEnabled THEN "switch" ELSE "done",
                               !.result = IF isVisible /\ isEnabled THEN @ ELSE "false"]
     \/ \E error \in ErrorMessages :
          call' = [call EXCEPT !.error = error, !.pc = "done", !.result = "false"]
  /\ UNCHANGED sessionVars

\* the next locator operation of the switch: it completes, or it rejects and
\* the catch block returns false
InteractAct ==
  /\ call.pc = "switch"
  /\ LET op == actionsOf(call.interactionType)[Len(call.ops) + 1]
         ops == Append(call.ops, op)
     IN \/ call' = [call EXCEPT !.ops = ops,
                                !.pc = IF ops = actionsOf(call.interactionType)
                                       THEN "settle" ELSE "switch"]
        \/ \E error \in ErrorMessages :
             call' = [call EXCEPT !.error = error, !.pc = "done", !.result = "false"]
  /\ UNCHANGED sessionVars

\* await new Promise(resolve => setTimeout(resolve, 1000)); return true
InteractSettle ==
  /\ call.pc = "settle"
  /\ call' = [call EXCEPT !.settled = TRUE, !.pc = "done", !.result = "true"]
  /\ UNCHANGED sessionVars

SpecInteract ==
  (\E interactionType \in InteractionTypes : InitCall(performInteraction(interactionType)))
    /\ [][InteractCheck \/ InteractAct \/ InteractSettle]_vars

\* C36: _performInteraction never throws; on an element that is not visible
\* or not enabled it does nothing and returns false; it returns false when
\* an operation raised an error; it returns true only after the operations
\* of the type completed and the settle delay elapsed; a type it does not
\* know is treated as click.
C36_InteractionNeverThrows ==
  call.fn = "_performInteraction" =>
    LET known == {"click", "hover", "focus", "scroll"}
        type == IF call.interactionType \in {"Click", "click"} THEN "click"
                ELSE IF call.interactionType \in {"HOVER", "hover"} THEN "hover"
                ELSE IF call.interactionType \in known THEN call.interactionType
                ELSE "click"
        expected == IF type = "scroll" THEN << "scrollIntoViewIfNeeded" >>
                    ELSE << "scrollIntoViewIfNeeded", type >>
    IN /\ call.pc = "done" <=> call.result \in {"true", "false"}
       /\ call.pc # "done" => call.result = "pending"
       /\ call.isVisible = "false" \/ call.isEnabled = "false" =>
            call.ops = << >> /\ call.result = "false"
       /\ call.error # "" => call.result = "false"
       /\ call.result = "true" =>
            /\ call.settled /\ call.error = ""
            /\ call.isVisible = "true" /\ call.isEnabled = "true"
            /\ call.ops = expected
       /\ \A i \in DOMAIN call.ops : i <= Len(expected) /\ call.ops[i] = expected[i]

\* a type the switch does not know, carried out as a click
C36_Witness ==
  /\ call.fn = "_performInteraction" /\ call.pc = "done" /\ call.result = "true"
  /\ call.interactionType = "tap"
  /\ call.ops = << "scrollIntoViewIfNeeded", "click" >>

----------------------------------------------------------------------------
\* C37: the XPath a locator builder returns for an element selects that
\* element and nothing else, also when the path was accepted by a
\* uniqueness test.
C37_XPathSelectsItsElement ==
  call.fn = "getXPath" /\ call.pc = "done" => call.selected = {call.element}

\* a class path of the overlay detector that passed isXPathUnique and
\* selects one node, which is not the element it was built for
C37_UniqueButAnother ==
  /\ call.fn = "getXPath" /\ call.pc = "done" /\ call.builder = "findModals"
  /\ call.xpath.base = "class" /\ call.xpath.steps = << >>
  /\ Cardinality(call.selected) = 1
  /\ call.element \notin call.selected

----------------------------------------------------------------------------
\* SimplePerformanceMonitor beside one attempt of scrape

MaxTicks == 2   \* most runs of the 5-second timer callback in one attempt

\* the awaits of the conversion phase, which runs after closeBrowser:
\* fixAndFormatHTML, convertToMarkdown, convertAndImproveMarkdownFromMarkdown
ConversionAwaits == <<"fixAndFormatHTML", "convertToMarkdown", "improve">>

\* the monitor and the attempt it runs beside: pc is the attempt's position,
\* timer the page operation the timer callback is waiting for ("idle":
\* none), converted the awaits of the conversion that are over, onClosedPage
\* the page operations the callback has issued with the browser closed
performanceMonitor(currentMode) ==
  [fn |-> "performanceMonitor", mode |-> currentMode, pc |-> "start",
   monitoringInterval |-> FALSE, browserMetricsAvailable |-> FALSE, browserPage |-> "none",
   browser |-> "none", timer |-> "idle", ticks |-> 0, converted |-> 0, onClosedPage |-> 0]

\* the attempt: performanceMonitor.start() and initBrowser; setBrowserContext;
\* the phases on the page up to closeBrowser in processNormalMode or
\* processBeastMode; the conversion, await by await; performanceMonitor.stop()
AttemptStep ==
  /\ call.pc \in {"start", "setup", "page", "convert", "stop"}
  /\ call' =
       CASE call.pc = "start" ->
              [call EXCEPT !.monitoringInterval = TRUE, !.browser = "open", !.pc = "setup"]
         [] call.pc = "setup" ->
              [call EXCEPT !.browserPage = "page", !.browserMetricsAvailable = TRUE,
                           !.pc = "page"]
         [] call.pc = "page" ->
              [call EXCEPT !.browser = "closed", !.pc = "convert"]
         [] call.pc = "convert" ->
              [call EXCEPT !.converted = @ + 1,
                           !.pc = IF call.converted + 1 = Len(ConversionAwaits)
                                  THEN "stop" ELSE "convert"]
         [] call.pc = "stop" ->
              [call EXCEPT !.monitoringInterval = FALSE, !.pc = "done"]
  /\ UNCHANGED sessionVars

\* page operations issued with the browser closed, after one more
IssuedOnPage(c) == IF c.browser = "closed" THEN c.onClosedPage + 1 ELSE c.onClosedPage

\* the setInterval callback: _updateMetrics, which calls _getBrowserMemoryMB
\* with the page it was given when it has one
TimerFires ==
  /\ call.monitoringInterval
  /\ call.timer = "idle"
  /\ call.ticks < MaxTicks
  /\ call' = IF call.browserMetricsAvailable /\ call.browserPage # "none"
             THEN [call EXCEPT !.ticks = @ + 1, !.timer = "newCDPSession",
                               !.onClosedPage = IssuedOnPage(call)]
             ELSE [call EXCEPT !.ticks = @ + 1]
  /\ UNCHANGED sessionVars

\* _getBrowserMemoryMB goes on: newCDPSession, client.send, client.detach;
\* an operation that rejects ends it in the catch block
TimerGoesOn ==
  /\ call.timer # "idle"
  /\ \/ call' = [call EXCEPT !.timer = "idle"]
     \/ /\ call.timer # "detach"
        /\ call' = [call EXCEPT !.timer = IF call.timer = "newCDPSession" THEN "send"
                                          ELSE "detach",
                                !.onClosedPage = IssuedOnPage(call)]
  /\ UNCHANGED sessionVars

SpecMonitor ==
  (\E currentMode \in {"normal", "beast"} : InitCall(performanceMonitor(currentMode)))
    /\ [][AttemptStep \/ TimerFires \/ TimerGoesOn]_vars

\* C38: no operation is issued on the page after its browser was closed:
\* between closeBrowser and the stop of the monitor the timer callback does
\* not use the page handle it was given.
C38_NoUseOfClosedPage ==
  call.fn = "performanceMonitor" => call.onClosedPage = 0

\* the part of C38 that holds: once the monitor is stopped and the callback
\* in flight is over, no page operation is issued any more
C38_NoUseAfterStop ==
  [][call.fn = "performanceMonitor" /\ call.pc = "done" /\ call.timer = "idle"
       => call'.onClosedPage = call.onClosedPage]_vars

----------------------------------------------------------------------------
\* The phase events scrapeWithStreaming passes to its progress callback

\* the phase that follows a phase in an attempt ("none": the attempt is
\* over); a beast-mode attempt whose snapshot is too large goes on from
\* ai-element-detection with processNormalMode
nextPhase(currentMode, phase, oversized) ==
  CASE phase = "none" -> "browser-setup"
    [] phase = "browser-setup" -> "page-loading"
    [] phase = "page-loading" -> "iframe-processing"
    [] phase = "iframe-processing" ->
         IF currentMode = "normal" THEN "content-extraction" ELSE "ai-element-detection"
    [] phase = "ai-element-detection" ->
         IF oversized THEN "content-extraction" ELSE "dynamic-content-extraction"
    [] phase = "dynamic-content-extraction" -> "content-processing"
    [] OTHER -> "none"

\* one streaming session as its callback sees it: open are the phases with
\* a phase_start and no phase_end after it, stray tells of a phase_end for a
\* phase that was not open, fellBack of an attempt that took the fallback
streamEvents(currentMode) ==
  [fn |-> "streamEvents", mode |-> currentMode, pc |-> "start", phase |-> "none",
   upcoming |-> "browser-setup", retryCount |-> 0, open |-> {}, stray |-> FALSE,
   fellBack |-> FALSE, success |-> FALSE, complete |-> FALSE]

\* progressCallback({type: 'phase_start', phase})
PhaseStart ==
  /\ call.pc = "start"
  /\ call' = [call EXCEPT !.pc = "phase", !.phase = call.upcoming,
                          !.open = @ \cup {call.upcoming}]
  /\ UNCHANGED sessionVars

\* the phase is over: progressCallback({type: 'phase_end', phase}) and on to
\* the next phase, or to the end of the loop after the last one; in
\* ai-element-detection, a snapshot above the limit returns
\* processNormalMode(...) at once
PhaseEnd ==
  /\ call.pc = "phase"
  /\ \E oversized \in BOOLEAN :
       /\ oversized => call.phase = "ai-element-detection"
       /\ LET next == nextPhase(call.mode, call.phase, oversized)
              c == IF oversized THEN [call EXCEPT !.fellBack = TRUE]
                   ELSE [call EXCEPT !.open = @ \ {call.phase},
                                     !.stray = @ \/ call.phase \notin call.open]
          IN call' = IF next = "none"
                     THEN [c EXCEPT !.pc = "complete", !.success = TRUE]
                     ELSE [c EXCEPT !.pc = "start", !.upcoming = next]
  /\ UNCHANGED sessionVars

\* an exception in a phase: the catch block of the attempt, and the next
\* attempt or the end of the loop
PhaseThrows ==
  /\ call.pc = "phase"
  /\ call' = [call EXCEPT !.retryCount = @ + 1,
                          !.pc = IF call.retryCount + 1 < MAX_RETRY_COUNT
                                 THEN "start" ELSE "complete",
                          !.upcoming = "browser-setup"]
  /\ UNCHANGED sessionVars

\* progressCallback({type: 'stream_complete', ...result})
StreamComplete ==
  /\ call.pc = "complete"
  /\ call' = [call EXCEPT !.pc = "done", !.complete = TRUE]
  /\ UNCHANGED sessionVars

SpecEvents ==
  (\E currentMode \in {"normal", "beast"} : InitCall(streamEvents(currentMode)))
    /\ [][PhaseStart \/ PhaseEnd \/ PhaseThrows \/ StreamComplete]_vars

\* C39: in a session that ends with success, every phase_start is followed,
\* before stream_complete, by a phase_end of the same phase, and no
\* phase_end comes for a phase that was not started, also when a beast-mode
\* attempt falls back to normal processing.
C39_PhasesClosed ==
  call.fn = "streamEvents" /\ call.complete /\ call.success =>
    call.open = {} /\ ~call.stray

\* the part of C39 that holds: sessions without a fallback, and no
\* phase_end without its phase_start in any session
C39_ClosedWithoutFallback ==
  call.fn = "streamEvents" =>
    /\ ~call.stray
    /\ call.complete /\ call.success /\ ~call.fellBack => call.open = {}

----------------------------------------------------------------------------
\* getKey (keys manager)

MaxKeys == 2    \* most API keys in the environment
MaxCalls == 3   \* most calls of getKey in one process

\* the counters keys-manager.json can hold for a key when the process starts
SavedCounts == {0, 3}

\* the module: keys is the number of keys in the environment (key k is the
\* k-th in sorted order), loaded tells that the keys array is filled, state
\* the counters per key, selected the key the latest call returned; fresh
\* tells that no saved counter was read, resets that a call has reset a
\* counter, calls counts the calls
keysManager(n) ==
  [fn |-> "getKey", keys |-> n, loaded |-> FALSE,
   state |-> [k \in 1 .. n |-> [requests |-> 0, daily |-> 0]],
   before |-> [k \in 1 .. n |-> [requests |-> 0, daily |-> 0]],
   currentIndex |-> 0, selected |-> 0, fresh |-> TRUE, reset |-> FALSE, resets |-> FALSE, calls |-> 0]

\* s.requests + s.daily * 0.1, in tenths
score(s) == 10 * s.requests + s.daily

\* the block under `if (keys.length === 0)` of the first call: the keys of
\* the environment, the return of a single key, the saved state of the file
\* when there is one, zero counters for the keys it does not hold
getKeyInit(c, saved) ==
  IF c.keys = 1 THEN [c EXCEPT !.loaded = TRUE]
  ELSE [c EXCEPT !.loaded = TRUE, !.state = saved,
                 !.fresh = \A k \in 1 .. c.keys : saved[k] = [requests |-> 0, daily |-> 0]]

getKeySelect_RoundRobin(c, minute, day) ==
  LET s == [k \in 1 .. c.keys |->
              [requests |-> IF k \in minute THEN 0 ELSE c.state[k].requests,
               daily |-> IF k \in day THEN 0 ELSE c.state[k].daily]]
      selectedKey == c.currentIndex + 1
  IN [c EXCEPT !.state = [s EXCEPT ![selectedKey] =
                            [requests |-> @.requests + 1, daily |-> @.daily + 1]],
               !.currentIndex = (c.currentIndex + 1) % c.keys,
               !.selected = selectedKey,
               !.before = c.state,
               !.reset = s # c.state,
               !.resets = @ \/ s # c.state]

\* the rest of getKey for two keys or more: the resets of the counters that
\* are due (minute, day: the keys whose minute or day is over), the first key
\* of the lowest score, its two counters incremented, currentIndex moved on
getKeySelect(c, minute, day) ==
  LET s == [k \in 1 .. c.keys |->
              [requests |-> IF k \in minute THEN 0 ELSE c.state[k].requests,
               daily |-> IF k \in day THEN 0 ELSE c.state[k].daily]]
      bestKey == CHOOSE k \in 1 .. c.keys :
                   \A j \in 1 .. c.keys :
                     score(s[k]) < score(s[j]) \/ (score(s[k]) = score(s[j]) /\ k <= j)
  IN [c EXCEPT !.state = [s EXCEPT ![bestKey] =
                            [requests |-> @.requests + 1, daily |-> @.daily + 1]],
               !.currentIndex = (c.currentIndex + 1) % c.keys,
               !.selected = bestKey,
               !.before = c.state,
               !.reset = s # c.state,
               !.resets = @ \/ s # c.state]

\* one call of getKey
GetKey ==
  /\ call.calls < MaxCalls
  /\ \E saved \in (IF call.loaded THEN {call.state}
                    ELSE [1 .. call.keys -> [requests : SavedCounts, daily : SavedCounts]]),
        minute \in SUBSET (1 .. call.keys), day \in SUBSET (1 .. call.keys) :
       LET c == IF call.loaded THEN call ELSE getKeyInit(call, saved)
           called == [c EXCEPT !.calls = @ + 1]
       IN call' = IF c.keys = 1 THEN [called EXCEPT !.selected = 1, !.before = c.state]
                  ELSE getKeySelect(called, minute, day)
  /\ UNCHANGED sessionVars

SpecKeys == (\E n \in 1 .. MaxKeys : InitCall(keysManager(n))) /\ [][GetKey]_vars

\* getKey has returned from a call in which no counter was reset
KeyReturned == call.fn = "getKey" /\ call.calls > 0 /\ ~call.reset

\* what such a call has done: with two keys or more it returned a key of the
\* lowest score and added 1 to the two counters of that key alone; with one
\* key it returned it and changed no counter
LeastUsed ==
  IF call.keys = 1
  THEN call.selected = 1 /\ call.state = call.before
  ELSE /\ \A k \in 1 .. call.keys :
            score(call.before[call.selected]) <= score(call.before[k])
       /\ \A k \in 1 .. call.keys :
            IF k = call.selected
            THEN /\ call.state[k].requests = call.before[k].requests + 1
                 /\ call.state[k].daily = call.before[k].daily + 1
            ELSE call.state[k] = call.before[k]

\* the request counts of any two keys differ by at most 1
Balanced ==
  \A j, k \in 1 .. call.keys :
    call.state[j].requests - call.state[k].requests \in {-1, 0, 1}

\* C40: with no counter reset between the calls, every call of getKey
\* returns a key of the lowest score and increments the counters of that key
\* alone (with one key: returns it, changes nothing); hence, after any
\* sequence of calls, the request counts of two keys differ by at most 1.
C40_LeastUsedHenceBalanced ==
  KeyReturned => LeastUsed /\ (~call.resets => Balanced)

\* C40 as the code has it: the same, with the balance only for calls that
\* began from counters that were all zero (no saved counts were read).
C40_LeastUsedBalancedFromZero ==
  KeyReturned => LeastUsed /\ (~call.resets /\ call.fresh => Balanced)

\* three calls without a reset on two keys that began at zero
C40_Witness ==
  /\ call.fn = "getKey" /\ call.keys = 2 /\ call.calls = 3
  /\ call.fresh /\ ~call.resets
  /\ call.selected = 1
  /\ call.state[1].requests = 2 /\ call.state[2].requests = 1

====
